---------------------------- MODULE Spec2Model ----------------------------
(***************************************************************************)
(* Model of the datastream library: the DataReader (buffered bit cursor,   *)
(* refill protocol, look-ahead with commit) and the DataWriter (bit        *)
(* cursor over a fixed buffer that is flushed to a sink).                  *)
(*                                                                         *)
(* A Uint8Array is modelled by an identity (an integer) because the        *)
(* reader compares buffers with !==:                                       *)
(*    0        the empty array allocated by the constructor                *)
(*    1..n     the n-th chunk delivered by the source                      *)
(*    -k       the k-th empty array allocated by fill() at end of stream   *)
(***************************************************************************)
EXTENDS Integers, Sequences, FiniteSets, TLC

VARIABLES chunks,    \* the chunks the source delivers, in order
          rd,        \* the DataReader under test
          frames,    \* the active lookAhead invocations, innermost last
          ref,       \* a second DataReader on the same chunks that never looks ahead
          one,       \* a DataReader that receives the same bytes as one single chunk
          wr,        \* the DataWriter
          sink,      \* the chunks the writer's sink has received, in order
          bitsIn,    \* the bits given to the writer so far
          io,        \* the sink writes in flight and the promise of the last write call
          native,    \* the byte order of the platform, getNativeEndianness()
          log,       \* the values written and not yet read back, in order
          growing    \* the Uint8ArraySink under test

vars == <<chunks, rd, frames, ref, one, wr, sink, bitsIn, io, native, log, growing>>

---------------------------------------------------------------------------
(* Bounds *)

MaxChunks == 2       \* number of chunks the source delivers
MaxDepth == 2        \* nesting depth of lookAhead
MaxFresh == 1        \* end-of-stream refills a reader performs
MaxWide == 4         \* bytes in the source of the chunking comparison
MaxPieces == 2       \* chunks in the source of the chunking comparison
MaxParts == 3        \* chunks in the source of the byte comparison
MaxBufferSize == 2   \* writer buffer size
MaxCalls == 3         \* number of calls of writer methods
MaxWriteBits == 10   \* bits written to the writer

\* the bytes of the source: 0b11001010, 0b00110101, 0xFF, 0x00, ...
Bytes == <<202, 53, 255, 0, 165>>

\* the bytes of the source the look-ahead reader reads
Stream == <<202, 53>>
BitCounts == {4, 12}
CommitBitCounts == {4}   \* bit counts passed to commit(n, 1)
CommitByteCounts == {1}  \* byte counts passed to commit(n)
ByteCounts == {1}        \* byte counts passed to skipBytes

NULL == -1                \* the end-of-stream sentinel (null)
ERROR == -2               \* an error thrown at the caller
LITTLE == "LITTLE"
BIG == "BIG"

---------------------------------------------------------------------------
(* Arithmetic of the JavaScript operators used on bytes *)

Min(a, b) == IF a < b THEN a ELSE b

Shr(x, n) == x \div (2 ^ n)

Shl(x, n) == x * (2 ^ n)

LowBits(x, n) == x % (2 ^ n)

RECURSIVE SumLen(_, _)
SumLen(ch, n) == IF n = 0 THEN 0 ELSE Len(ch[n]) + SumLen(ch, n - 1)

RECURSIVE SumLens(_, _)
SumLens(l, n) == IF n = 0 THEN 0 ELSE l[n] + SumLens(l, n - 1)

RECURSIVE Flatten(_)
Flatten(ch) == IF ch = <<>> THEN <<>> ELSE Head(ch) \o Flatten(Tail(ch))

---------------------------------------------------------------------------
(* Uint8Array contents by identity *)

Data(id, ch) == IF id \in 1..Len(ch) THEN ch[id] ELSE <<>>

\* buffer[i]; an index outside the array yields undefined, which the
\* bit operators >> and & coerce to 0
At(id, i, ch) == IF i >= 0 /\ i < Len(Data(id, ch)) THEN Data(id, ch)[i + 1] ELSE 0

---------------------------------------------------------------------------
(* DataReader *)

NewReader ==
    [buffer |-> 0, bufferSize |-> 0, byte |-> 0, bit |-> 0,
     bytesRead |-> 0, bitsRead |-> 0,
     nextBuffers |-> <<>>, previousBuffers |-> <<>>, recordBuffers |-> FALSE,
     srcIdx |-> 0, srcDone |-> FALSE, fresh |-> 0,
     ok |-> TRUE, ret |-> <<>>]

\* DataReaderSource.read(): the next chunk, or done once all are delivered
SourceRead(r, ch) ==
    IF r.srcIdx < Len(ch)
    THEN [done |-> FALSE, value |-> r.srcIdx + 1, r |-> [r EXCEPT !.srcIdx = @ + 1]]
    ELSE [done |-> TRUE, value |-> 0, r |-> [r EXCEPT !.srcDone = TRUE]]

readNextBuffer(r, ch) ==
    IF r.nextBuffers # <<>>
    THEN [done |-> FALSE, value |-> Head(r.nextBuffers),
          r |-> [r EXCEPT !.nextBuffers = Tail(@)]]
    ELSE SourceRead(r, ch)

\* the else branch of fill(): data received
fillResult(r, value, ch) ==
    [r EXCEPT !.buffer = value, !.bufferSize = Len(Data(value, ch)),
              !.ok = Len(Data(value, ch)) > 0]

fillUnrecorded(r, ch) ==
    LET nb == readNextBuffer([r EXCEPT !.byte = 0], ch)
    IN IF nb.done
       THEN [nb.r EXCEPT !.buffer = -(nb.r.fresh + 1), !.fresh = @ + 1,
                         !.bufferSize = 0, !.ok = FALSE]
       ELSE fillResult(nb.r, nb.value, ch)

fill(r, ch) ==
    LET r1 == IF r.recordBuffers
              THEN [r EXCEPT !.previousBuffers = Append(@, r.buffer)]
              ELSE r
        r2 == [r1 EXCEPT !.byte = 0]
        nb == readNextBuffer(r2, ch)
    IN IF nb.done
       THEN [nb.r EXCEPT !.buffer = -(nb.r.fresh + 1), !.fresh = @ + 1,
                         !.bufferSize = 0, !.ok = FALSE]
       ELSE fillResult(nb.r, nb.value, ch)

\* "if (this.byte >= this.bufferSize) { if (!await this.fill()) ... }"
ensure(r, ch) == IF r.byte >= r.bufferSize THEN fill(r, ch) ELSE [r EXCEPT !.ok = TRUE]

requeueAtEnd(r) == Append(r.nextBuffers, r.buffer)

\* this.nextBuffers.unshift(this.buffer)
requeue(r) == <<r.buffer>> \o r.nextBuffers

restoreBufferOnce(r, buffer, ch) ==
    IF r.buffer = buffer \/ r.previousBuffers = <<>>
    THEN r
    ELSE LET n == Len(r.previousBuffers)
             previousBuffer == r.previousBuffers[n]
         IN [r EXCEPT !.previousBuffers = SubSeq(@, 1, n - 1),
                      !.nextBuffers = requeue(r),
                      !.buffer = previousBuffer,
                      !.bufferSize = Len(Data(previousBuffer, ch))]

RECURSIVE restoreBuffer(_, _, _)
restoreBuffer(r, buffer, ch) ==
    IF r.buffer = buffer \/ r.previousBuffers = <<>>
    THEN r
    ELSE LET n == Len(r.previousBuffers)
             previousBuffer == r.previousBuffers[n]
         IN restoreBuffer([r EXCEPT !.previousBuffers = SubSeq(@, 1, n - 1),
                                    !.nextBuffers = requeue(r),
                                    !.buffer = previousBuffer,
                                    !.bufferSize = Len(Data(previousBuffer, ch))],
                          buffer, ch)

\* restoreBuffer() spins forever when the history is empty and the current
\* buffer is not the wanted one
restoreBufferDiverges(r, buffer) ==
    /\ r.buffer # buffer
    /\ \A i \in 1..Len(r.previousBuffers) : r.previousBuffers[i] # buffer

readBitNoByteCount(r, ch) ==
    LET f == ensure(r, ch)
    IN IF ~f.ok THEN [f EXCEPT !.ret = <<NULL>>]
       ELSE LET value == Shr(At(f.buffer, f.byte, ch), f.bit) % 2
            IN IF f.bit + 1 >= 8
               THEN [f EXCEPT !.bit = 0, !.byte = @ + 1, !.bitsRead = @ + 1,
                              !.ret = <<value>>]
               ELSE [f EXCEPT !.bit = @ + 1, !.bitsRead = @ + 1, !.ret = <<value>>]

readBit(r, ch) ==
    LET f == ensure(r, ch)
    IN IF ~f.ok THEN [f EXCEPT !.ret = <<NULL>>]
       ELSE LET value == Shr(At(f.buffer, f.byte, ch), f.bit) % 2
            IN IF f.bit + 1 >= 8
               THEN [f EXCEPT !.bit = 0, !.byte = @ + 1, !.bytesRead = @ + 1,
                              !.bitsRead = @ + 1, !.ret = <<value>>]
               ELSE [f EXCEPT !.bit = @ + 1, !.bitsRead = @ + 1, !.ret = <<value>>]

RECURSIVE readBitsLoop(_, _, _, _)
readBitsLoop(r, ch, n, bits) ==
    IF n = 0 THEN [r EXCEPT !.ret = bits]
    ELSE LET b == readBit(r, ch)
         IN IF b.ret = <<NULL>> THEN [b EXCEPT !.ret = bits]
            ELSE readBitsLoop(b, ch, n - 1, bits \o b.ret)

readBits(r, ch, numBits) == readBitsLoop(r, ch, numBits, <<>>)

readUint8(r, ch) ==
    IF r.bit = 0
    THEN LET f == ensure(r, ch)
         IN IF ~f.ok THEN [f EXCEPT !.ret = <<NULL>>]
            ELSE [f EXCEPT !.byte = @ + 1, !.bytesRead = @ + 1, !.bitsRead = @ + 8,
                           !.ret = <<At(f.buffer, f.byte, ch)>>]
    ELSE LET low == Shr(At(r.buffer, r.byte, ch), r.bit)
             r1 == [r EXCEPT !.byte = @ + 1, !.bytesRead = @ + 1, !.bitsRead = @ + 8]
             f == ensure(r1, ch)
         IN IF ~f.ok THEN [f EXCEPT !.ret = <<NULL>>]
            ELSE LET high == Shl(LowBits(At(f.buffer, f.byte, ch), f.bit), 8 - f.bit)
                 IN [f EXCEPT !.ret = <<low + high>>]

\* the one element of a singleton: Only({F(v) : v \in {e}}) is F(e) with e
\* evaluated once
Only(S) == CHOOSE x \in S : TRUE

\* value << 24 >> 24
int8Of(u) ==
    IF u.ret = <<NULL>> THEN u
    ELSE [u EXCEPT !.ret = <<IF u.ret[1] >= 128 THEN u.ret[1] - 256 ELSE u.ret[1]>>]

readInt8(r, ch) == Only({int8Of(u) : u \in {readUint8(r, ch)}})

uint16Of(first, second, endianness) ==
    IF second.ret = <<NULL>> THEN second
    ELSE IF endianness = LITTLE
         THEN [second EXCEPT !.ret = <<first.ret[1] + Shl(second.ret[1], 8)>>]
         ELSE [second EXCEPT !.ret = <<Shl(first.ret[1], 8) + second.ret[1]>>]

uint16After(first, ch, endianness) ==
    IF first.ret = <<NULL>> THEN first
    ELSE Only({uint16Of(first, second, endianness) : second \in {readUint8(first, ch)}})

readUint16(r, ch, endianness) ==
    Only({uint16After(first, ch, endianness) : first \in {readUint8(r, ch)}})

\* unsigned << 16 >> 16
int16Of(u) ==
    IF u.ret = <<NULL>> THEN u
    ELSE [u EXCEPT !.ret = <<IF u.ret[1] >= 32768 THEN u.ret[1] - 65536 ELSE u.ret[1]>>]

readInt16(r, ch, endianness) == Only({int16Of(u) : u \in {readUint16(r, ch, endianness)}})

\* the | of two 16 bit halves is a signed 32 bit integer: the high half
\* carries the sign
int32Of(first, second, endianness) ==
    IF second.ret = <<NULL>> THEN second
    ELSE LET hi == IF endianness = LITTLE THEN second.ret[1] ELSE first.ret[1]
             lo == IF endianness = LITTLE THEN first.ret[1] ELSE second.ret[1]
         IN [second EXCEPT !.ret =
                <<(IF hi >= 32768 THEN hi - 65536 ELSE hi) * 65536 + lo>>]

int32After(first, ch, endianness) ==
    IF first.ret = <<NULL>> THEN first
    ELSE Only({int32Of(first, second, endianness) :
                  second \in {readUint16(first, ch, endianness)}})

readInt32(r, ch, endianness) ==
    Only({int32After(first, ch, endianness) : first \in {readUint16(r, ch, endianness)}})

\* signed >>> 0; the unsigned value is ret[1] * 65536 + ret[2], kept as its
\* two 16 bit halves
uint32Of(s) ==
    IF s.ret = <<NULL>> THEN s
    ELSE [s EXCEPT !.ret = <<(s.ret[1] \div 65536) % 65536, s.ret[1] % 65536>>]

readUint32(r, ch, endianness) == Only({uint32Of(s) : s \in {readInt32(r, ch, endianness)}})

\* BigInt(first) | (BigInt(second) << 32n), or the other way round; the
\* value is kept as its four 16 bit parts, most significant first
uint64Of(first, second, endianness) ==
    IF second.ret = <<NULL>> THEN second
    ELSE IF endianness = LITTLE
         THEN [second EXCEPT !.ret = second.ret \o first.ret]
         ELSE [second EXCEPT !.ret = first.ret \o second.ret]

uint64After(first, ch, endianness) ==
    IF first.ret = <<NULL>> THEN first
    ELSE Only({uint64Of(first, second, endianness) :
                  second \in {readUint32(first, ch, endianness)}})

readBigUint64(r, ch, endianness) ==
    Only({uint64After(first, ch, endianness) : first \in {readUint32(r, ch, endianness)}})

RECURSIVE readAlignedLoop(_, _, _, _)
readAlignedLoop(r, ch, size, out) ==
    IF Len(out) >= size THEN [r EXCEPT !.ret = <<Len(out)>> \o out]
    ELSE LET f == ensure(r, ch)
         IN IF ~f.ok THEN [f EXCEPT !.ret = <<Len(out)>> \o out]
            ELSE LET chunkSize == Min(size - Len(out), f.bufferSize - f.byte)
                     chunk == SubSeq(Data(f.buffer, ch), f.byte + 1, f.byte + chunkSize)
                 IN readAlignedLoop([f EXCEPT !.byte = @ + chunkSize,
                                              !.bytesRead = @ + chunkSize,
                                              !.bitsRead = @ + chunkSize * 8],
                                    ch, size, out \o chunk)

RECURSIVE readUnalignedLoop(_, _, _, _)
readUnalignedLoop(r, ch, size, out) ==
    IF Len(out) >= size THEN [r EXCEPT !.ret = <<Len(out)>> \o out]
    ELSE LET v == readUint8(r, ch)
         IN IF v.ret = <<NULL>> THEN [v EXCEPT !.ret = <<Len(out)>> \o out]
            ELSE readUnalignedLoop(v, ch, size, out \o v.ret)

\* ret is the returned count followed by the bytes stored in the caller's buffer
readUint8Array(r, ch, size) ==
    IF r.bit = 0 THEN readAlignedLoop(r, ch, size, <<>>)
    ELSE readUnalignedLoop(r, ch, size, <<>>)

\* a sequence in reverse order
Reverse(q) == [i \in 1..Len(q) |-> q[Len(q) + 1 - i]]

\* A value of a 2, 4 or 8 byte element is kept as its bytes, most
\* significant first. The value of the element held in the bytes mem of a
\* typed array, on a platform of the given byte order
elementAt(mem, platform) == IF platform = LITTLE THEN Reverse(mem) ELSE mem

\* the bytes a typed array holds for the value, on a platform of the given
\* byte order
elementBytes(value, platform) == IF platform = LITTLE THEN Reverse(value) ELSE value

\* swap16, swap32 and swap64: the value with its bytes in reverse order
swap(value) == Reverse(value)

\* mem with the bytes stored from index at (from 0) on
stored(mem, at, bytes) ==
    [i \in 1..Len(mem) |->
        IF i > at /\ i <= at + Len(bytes) THEN bytes[i - at] ELSE mem[i]]

\* readUint8Array(new Uint8Array(buffer.buffer, offset * w, size * w)) for
\* the memory mem of a typed array with elements of w bytes; ret is the
\* number of bytes read followed by the memory
readIntoMemory(r, ch, w, mem, offset, size) ==
    Only({[u EXCEPT !.ret = <<u.ret[1]>> \o stored(mem, offset * w, Tail(u.ret))]
          : u \in {readUint8Array(r, ch, size * w)}})

\* the loop that swaps the elements offset .. offset + read - 1
swapRead(mem, w, offset, read, platform) ==
    [i \in 1..Len(mem) |->
        IF i > offset * w /\ i <= (offset + read) * w
        THEN LET e == (i - 1) \div w
             IN elementBytes(swap(elementAt(SubSeq(mem, e * w + 1, e * w + w), platform)),
                             platform)[i - e * w]
        ELSE mem[i]]

\* readUint16Array, readUint32Array and readBigUint64Array (w = 2, 4, 8) on
\* a typed array with the memory mem; ret is the number of elements read
\* followed by the memory
readArray(r, ch, w, mem, offset, size, endianness, platform) ==
    Only({LET read == u.ret[1] \div w
          IN [u EXCEPT !.ret = <<read>> \o
                 (IF endianness # platform
                  THEN swapRead(Tail(u.ret), w, offset, read, platform)
                  ELSE Tail(u.ret))]
          : u \in {readIntoMemory(r, ch, w, mem, offset, size)}})

\* the "Skip full bytes" loop of skipBits; st = [r, skipped, bits, eos]
RECURSIVE skipFullBytes(_, _, _)
skipFullBytes(st, ch, bytesToSkip) ==
    IF bytesToSkip <= 0 THEN st
    ELSE LET f == ensure(st.r, ch)
         IN IF ~f.ok THEN [st EXCEPT !.r = f, !.eos = TRUE]
            ELSE LET availableBytes == Min(bytesToSkip, f.bufferSize - f.byte)
                     availableBits == availableBytes * 8
                 IN skipFullBytes([r |-> [f EXCEPT !.byte = @ + availableBytes,
                                                   !.bytesRead = @ + availableBytes,
                                                   !.bitsRead = @ + availableBytes * 8],
                                   skipped |-> st.skipped + availableBits,
                                   bits |-> st.bits - availableBits,
                                   eos |-> FALSE],
                                  ch, bytesToSkip - availableBytes)

\* "Get to next byte boundary if not already there"
skipToBoundary(r, bits) ==
    IF r.bit > 0
    THEN LET bitsToSkip == Min(bits, 8 - r.bit)
             r1 == [r EXCEPT !.bitsRead = @ + bitsToSkip, !.bit = @ + bitsToSkip]
         IN [r |-> IF r1.bit >= 8
                   THEN [r1 EXCEPT !.bit = 0, !.byte = @ + 1, !.bytesRead = @ + 1]
                   ELSE r1,
             skipped |-> bitsToSkip, bits |-> bits - bitsToSkip, eos |-> FALSE]
    ELSE [r |-> r, skipped |-> 0, bits |-> bits, eos |-> FALSE]

\* "Skip remaining bits"
skipRemaining(st, ch) ==
    IF st.bits > 0
    THEN LET f == ensure(st.r, ch)
         IN IF ~f.ok THEN [st EXCEPT !.r = f, !.eos = TRUE]
            ELSE [st EXCEPT !.r = [f EXCEPT !.bit = @ + st.bits, !.bitsRead = @ + st.bits],
                            !.skipped = @ + st.bits]
    ELSE st

skipBits(r, ch, bits) ==
    LET s1 == skipToBoundary(r, bits)
        s2 == skipFullBytes(s1, ch, Shr(s1.bits, 3))
        s3 == IF s2.eos THEN s2 ELSE skipRemaining(s2, ch)
    IN [s3.r EXCEPT !.ret = <<s3.skipped>>]

skipBytes(r, ch, bytes) ==
    LET s == skipBits(r, ch, bytes * 8)
    IN [s EXCEPT !.ret = <<s.ret[1] \div 8>>]

---------------------------------------------------------------------------
(* readUntil, readNullTerminatedString and readLine in an 8-bit encoding.
   The Uint8ArraySink that collects the bytes is a sequence here. *)

\* maxBytes when the option is not given
NoMax == -1

NUL == 0

LF == 10

CR == 13

\* this.buffer.indexOf(stopValue, from): the first index >= from, or -1
IndexOf(data, stopValue, from) ==
    LET hits == {i \in from..(Len(data) - 1) : data[i + 1] = stopValue}
    IN IF hits = {} THEN -1 ELSE CHOOSE i \in hits : \A j \in hits : i <= j

\* one pass of the loop of readUntil at a byte boundary, the buffer holding
\* data: what the sink holds after it, the reader after it, and whether the
\* loop ends
untilPass(f, ch, stopValue, maxBytes, includeStopValue, out, read) ==
    LET data == Data(f.buffer, ch)
        at == IndexOf(data, stopValue, f.byte)
        found == at # -1
        index == IF found /\ includeStopValue THEN at + 1 ELSE at
        whole == IF found THEN index - f.byte ELSE f.bufferSize - f.byte
        cut == maxBytes # NoMax /\ whole > maxBytes - read
        size == IF cut THEN Min(whole, maxBytes - read) ELSE whole
        step == IF found /\ ~includeStopValue THEN size + 1 ELSE size
    IN [r |-> [f EXCEPT !.byte = @ + step, !.bytesRead = @ + step,
                        !.bitsRead = @ + step * 8],
        out |-> out \o SubSeq(data, f.byte + 1, f.byte + size),
        read |-> read + step,
        end |-> cut \/ found]

\* the loop of readUntil at a byte boundary; ret is the sink's content, or
\* <<NULL>> for null
RECURSIVE readUntilAligned(_, _, _, _, _, _, _)
readUntilAligned(r, ch, stopValue, maxBytes, includeStopValue, out, read) ==
    Only({IF ~f.ok
          THEN [f EXCEPT !.ret = IF read = 0 THEN <<NULL>> ELSE out]
          ELSE Only({IF p.end
                     THEN [p.r EXCEPT !.ret = p.out]
                     ELSE readUntilAligned(p.r, ch, stopValue, maxBytes,
                                           includeStopValue, p.out, p.read)
                     : p \in {untilPass(f, ch, stopValue, maxBytes,
                                        includeStopValue, out, read)}})
          : f \in {ensure(r, ch)}})

\* the loop of readUntil outside a byte boundary
RECURSIVE readUntilUnaligned(_, _, _, _, _, _, _)
readUntilUnaligned(r, ch, stopValue, maxBytes, includeStopValue, out, read) ==
    IF maxBytes # NoMax /\ read >= maxBytes THEN [r EXCEPT !.ret = out]
    ELSE Only({IF v.ret = <<NULL>>
               THEN [v EXCEPT !.ret = IF read = 0 THEN <<NULL>> ELSE out]
               ELSE IF v.ret[1] = stopValue /\ ~includeStopValue
               THEN [v EXCEPT !.ret = out]
               ELSE IF v.ret[1] = stopValue
               THEN [v EXCEPT !.ret = Append(out, v.ret[1])]
               ELSE readUntilUnaligned(v, ch, stopValue, maxBytes, includeStopValue,
                                       Append(out, v.ret[1]), read + 1)
               : v \in {readUint8(r, ch)}})

readUntil(r, ch, stopValue, maxBytes, includeStopValue) ==
    IF r.bit = 0
    THEN readUntilAligned(r, ch, stopValue, maxBytes, includeStopValue, <<>>, 0)
    ELSE readUntilUnaligned(r, ch, stopValue, maxBytes, includeStopValue, <<>>, 0)

\* the two bytes of a 16 bit value as readUntil16 writes them to the sink
unitBytes(value, bigEndian) ==
    IF bigEndian THEN <<Shr(value, 8), value % 256>> ELSE <<value % 256, Shr(value, 8)>>

\* the loop of readUntil16
RECURSIVE readUntil16Loop(_, _, _, _, _, _, _, _)
readUntil16Loop(r, ch, stopValue, bigEndian, maxBytes, includeStopValue, out, read) ==
    IF maxBytes # NoMax /\ read >= maxBytes THEN [r EXCEPT !.ret = out]
    ELSE Only({IF v.ret = <<NULL>>
               THEN [v EXCEPT !.ret = IF read = 0 THEN <<NULL>> ELSE out]
               ELSE IF v.ret[1] = stopValue /\ ~includeStopValue
               THEN [v EXCEPT !.ret = out]
               ELSE IF v.ret[1] = stopValue
               THEN [v EXCEPT !.ret = out \o unitBytes(v.ret[1], bigEndian)]
               ELSE readUntil16Loop(v, ch, stopValue, bigEndian, maxBytes,
                                    includeStopValue,
                                    out \o unitBytes(v.ret[1], bigEndian), read + 2)
               : v \in {readUint16(r, ch, IF bigEndian THEN BIG ELSE LITTLE)}})

readUntil16(r, ch, stopValue, bigEndian, maxBytes, includeStopValue) ==
    readUntil16Loop(r, ch, stopValue, bigEndian, maxBytes, includeStopValue, <<>>, 0)

UTF8 == "utf-8"

UTF16LE == "utf-16le"

UTF16BE == "utf-16be"

\* encoding.startsWith("utf-16")
startsWithUtf16(encoding) == encoding \in {"utf-16", UTF16LE, UTF16BE}

\* encoding.endsWith("be")
endsWithBe(encoding) == encoding = UTF16BE

\* U+FFFD, which a decoder puts in place of bytes that encode nothing
Replacement == 65533

\* TextDecoder("utf-8").decode on bytes none of which starts or continues a
\* multi-byte sequence: the code points, U+FFFD for a byte above 127
decode8(bytes) == [i \in 1..Len(bytes) |-> IF bytes[i] < 128 THEN bytes[i] ELSE Replacement]

\* TextDecoder("utf-16le" or "utf-16be").decode on bytes that hold neither a
\* byte order mark nor surrogates: the code units, U+FFFD for a single last
\* byte
decode16(bytes, bigEndian) ==
    [i \in 1..((Len(bytes) + 1) \div 2) |->
        IF 2 * i > Len(bytes) THEN Replacement
        ELSE IF bigEndian THEN 256 * bytes[2 * i - 1] + bytes[2 * i]
        ELSE bytes[2 * i - 1] + 256 * bytes[2 * i]]

\* this.getTextDecoder(encoding).decode(bytes)
decode(bytes, encoding) ==
    IF startsWithUtf16(encoding) THEN decode16(bytes, endsWithBe(encoding))
    ELSE decode8(bytes)

\* ret is the string as its code points, or <<NULL>> for null
readNullTerminatedString(r, ch, encoding, maxBytes) ==
    Only({IF result.ret = <<NULL>> THEN result
          ELSE [result EXCEPT !.ret = decode(@, encoding)]
          : result \in {IF startsWithUtf16(encoding)
                        THEN readUntil16(r, ch, NUL, endsWithBe(encoding), maxBytes, FALSE)
                        ELSE readUntil(r, ch, NUL, maxBytes, FALSE)}})

\* Uint8ArraySink.at(index); undefined is NULL here
\* Uint8ArraySink: initial is the capacity it was constructed with
NewSink(capacity) ==
    [size |-> 0, capacity |-> capacity, buffer |-> [i \in 1..capacity |-> 0],
     initial |-> capacity]

\* no sink constructed
NoSink == NewSink(0)

\* a write that puts the capacity at the new size
grownToFit(capacity, newSize) == newSize

\* "while (newSize > capacity) capacity += capacity"
RECURSIVE grown(_, _)
grown(capacity, newSize) ==
    IF newSize > capacity THEN grown(capacity + capacity, newSize) ELSE capacity

\* write(chunk) with the bytes of a Uint8Array, or the one byte of a number
write(s, bytes) ==
    LET newSize == s.size + Len(bytes)
        capacity == IF newSize > s.capacity THEN grown(s.capacity, newSize) ELSE s.capacity
    IN [s EXCEPT !.capacity = capacity,
                 !.buffer = [i \in 1..capacity |->
                                IF i > s.size /\ i <= newSize THEN bytes[i - s.size]
                                ELSE IF i <= s.capacity THEN s.buffer[i]
                                ELSE 0],
                 !.size = newSize]

getSize(s) == s.size

getCapacity(s) == s.capacity

reset(s) == [s EXCEPT !.size = 0]

\* Math.max(0, this.size - numBytes)
rewind(s, numBytes) ==
    [s EXCEPT !.size = IF s.size - numBytes > 0 THEN s.size - numBytes ELSE 0]

\* a getData() that returns the whole buffer
getDataWhole(s) == s.buffer

getData(s) == IF s.size = s.capacity THEN s.buffer ELSE SubSeq(s.buffer, 1, s.size)

\* an at() without the test against the size
atIndexUnchecked(s, index) ==
    LET i == IF index < 0 THEN index + s.size ELSE index
    IN IF i < 0 \/ i >= Len(s.buffer) THEN NULL ELSE s.buffer[i + 1]

\* at(index); undefined is NULL, which is also what the typed array gives
\* for an index outside of it
atIndex(s, index) ==
    LET i == IF index < 0 THEN index + s.size ELSE index
    IN IF i >= s.size THEN NULL
       ELSE IF i < 0 \/ i >= Len(s.buffer) THEN NULL
       ELSE s.buffer[i + 1]

SinkAt(data, index) ==
    LET i == IF index < 0 THEN index + Len(data) ELSE index
    IN IF i >= Len(data) \/ i < 0 THEN NULL ELSE data[i + 1]

\* Uint8ArraySink.rewind(numBytes)
SinkRewind(data, numBytes) == SubSeq(data, 1, IF Len(data) - numBytes > 0 THEN Len(data) - numBytes ELSE 0)

\* the length of the LF alone, whatever precedes it
eolLengthOfLF(data, encoding) ==
    LET size == Len(data)
    IN IF startsWithUtf16(encoding)
       THEN IF endsWithBe(encoding)
            THEN (IF SinkAt(data, size - 1) = LF /\ SinkAt(data, size - 2) = 0 THEN 2 ELSE 0)
            ELSE (IF SinkAt(data, size - 1) = 0 /\ SinkAt(data, size - 2) = LF THEN 2 ELSE 0)
       ELSE IF SinkAt(data, size - 1) = LF THEN 1 ELSE 0

\* the number of bytes of the EOL marker that ends the sink's content
eolLength(data, encoding) ==
    LET size == Len(data)
    IN IF startsWithUtf16(encoding)
       THEN IF endsWithBe(encoding)
            THEN (IF SinkAt(data, size - 1) = LF /\ SinkAt(data, size - 2) = 0
                  THEN (IF SinkAt(data, size - 3) = CR /\ SinkAt(data, size - 4) = 0
                        THEN 4 ELSE 2)
                  ELSE 0)
            ELSE (IF SinkAt(data, size - 1) = 0 /\ SinkAt(data, size - 2) = LF
                  THEN (IF SinkAt(data, size - 3) = 0 /\ SinkAt(data, size - 4) = CR
                        THEN 4 ELSE 2)
                  ELSE 0)
       ELSE IF SinkAt(data, size - 1) = LF
            THEN (IF SinkAt(data, size - 2) = CR THEN 2 ELSE 1)
            ELSE 0

readLine(r, ch, includeEOL, encoding, maxBytes) ==
    Only({IF result.ret = <<NULL>> THEN result
          ELSE IF ~includeEOL /\ eolLength(result.ret, encoding) > 0
          THEN [result EXCEPT !.ret = decode(SinkRewind(@, eolLength(@, encoding)), encoding)]
          ELSE [result EXCEPT !.ret = decode(@, encoding)]
          : result \in {IF startsWithUtf16(encoding)
                        THEN readUntil16(r, ch, LF, endsWithBe(encoding), maxBytes, TRUE)
                        ELSE readUntil(r, ch, LF, maxBytes, TRUE)}})

---------------------------------------------------------------------------
(* lookAhead *)

DefaultBitsPerValue == 8

\* the stream offset of the first byte of a buffer
Start(id, ch) ==
    IF id \in 1..Len(ch) THEN SumLen(ch, id - 1)
    ELSE IF id = 0 THEN 0 ELSE SumLen(ch, Len(ch))

\* the position of the cursor in the stream, in bits, never beyond its end
Pos(r, ch) == Min(8 * (Start(r.buffer, ch) + r.byte) + r.bit, 8 * SumLen(ch, Len(ch)))

\* the locals of one lookAhead invocation (orig*, committedBits) and what
\* the invocation has done so far (entryPos, inner)
lookAheadEntry(r, ch) ==
    [origByte |-> r.byte, origBit |-> r.bit,
     origReadBytes |-> r.bytesRead, origReadBits |-> r.bitsRead,
     origRecordBuffers |-> r.recordBuffers, origBuffer |-> r.buffer,
     committedBits |-> 0,
     entryPos |-> Pos(r, ch), inner |-> FALSE]

\* the commit closure: commit() is values = 0 with bitsPerValue = 0 here
commit(r, f, values, bitsPerValue) ==
    IF values = 0
    THEN [f EXCEPT !.committedBits = (r.bitsRead - f.origReadBits) * 1]
    ELSE [f EXCEPT !.committedBits = values * bitsPerValue]

lookAheadRestoreKeepCounters(r, f, ch) ==
    restoreBuffer([r EXCEPT !.byte = f.origByte, !.bit = f.origBit,
                            !.recordBuffers = f.origRecordBuffers],
                  f.origBuffer, ch)

\* the first six statements of the finally block
lookAheadRestore(r, f, ch) ==
    restoreBuffer([r EXCEPT !.byte = f.origByte, !.bit = f.origBit,
                            !.bytesRead = f.origReadBytes, !.bitsRead = f.origReadBits,
                            !.recordBuffers = f.origRecordBuffers],
                  f.origBuffer, ch)

\* try { return await operation(commit) } finally { ... }: the finally block
\* neither returns nor catches, so lookAhead completes as the operation did
lookAheadCompletion(outcome) == outcome

lookAheadFinallyOnReturnOnly(r, f, ch, outcome) ==
    IF outcome = "throw" THEN r
    ELSE LET r1 == lookAheadRestore(r, f, ch)
         IN IF f.committedBits > 0 THEN skipBits(r1, ch, f.committedBits) ELSE r1

\* the finally block: it runs whether the operation returned or threw
lookAheadFinally(r, f, ch, outcome) ==
    LET r1 == lookAheadRestore(r, f, ch)
    IN IF f.committedBits > 0 THEN skipBits(r1, ch, f.committedBits) ELSE r1

---------------------------------------------------------------------------
(* The reader under test, with its twin that never looks ahead *)

\* every way to deliver a prefix of bytes in at most maxChunks chunks,
\* empty chunks included
Chunkings(bytes, maxChunks) ==
    LET lens == {l \in UNION {[1..n -> 0..Len(bytes)] : n \in 0..maxChunks} :
                     SumLens(l, Len(l)) <= Len(bytes)}
    IN {[i \in 1..Len(l) |-> SubSeq(bytes, SumLens(l, i - 1) + 1, SumLens(l, i))] : l \in lens}

\* no write call issued, no sink write started
NoIO == [status |-> <<>>, started |-> {}, awaited |-> {}, op |-> "none", calls |-> 0]

NoWriter == [buffer |-> <<>>, bufferSize |-> 0, byte |-> 0, bit |-> 0, written |-> 0,
             flushed |-> FALSE]

Init ==
    /\ chunks \in Chunkings(Stream, MaxChunks)
    /\ rd = NewReader
    /\ ref = NewReader
    /\ one = NewReader
    /\ frames = <<>>
    /\ wr = NoWriter
    /\ sink = <<>>
    /\ bitsIn = <<>>
    /\ io = NoIO
    /\ log = <<>>
    /\ growing = NoSink
    /\ native = LITTLE

Depth == Len(frames)

\* a reader operation: the caller runs it on rd; the twin runs it as well
\* unless rd is inside a lookAhead
\* the caller of an operation inside a lookAhead only learns whether it
\* hit the end of the stream
Returned(r2) == IF Depth = 0 THEN r2 ELSE [r2 EXCEPT !.ret = <<>>]

Do(act, r2, t2) ==
    /\ r2.fresh <= MaxFresh
    /\ rd' = Returned(r2)
    /\ ref' = IF Depth = 0 THEN t2 ELSE ref
    /\ UNCHANGED <<chunks, frames, one, wr, sink, bitsIn, io, native, log, growing>>

ReadBits == \E n \in {4} :
    Do("readBits", readBits(rd, chunks, n), readBits(ref, chunks, n))

ReadUint8 == Do("readUint8", readUint8(rd, chunks), readUint8(ref, chunks))

ReadUint8Array == \E n \in {2} :
    Do("readUint8Array", readUint8Array(rd, chunks, n), readUint8Array(ref, chunks, n))

SkipBits == \E n \in BitCounts :
    Do("skipBits", skipBits(rd, chunks, n), skipBits(ref, chunks, n))

SkipBytes == \E n \in ByteCounts :
    Do("skipBytes", skipBytes(rd, chunks, n), skipBytes(ref, chunks, n))

EnterLookAhead ==
    /\ Depth < MaxDepth
    /\ frames' = Append(frames, lookAheadEntry(rd, chunks))
    /\ rd' = [rd EXCEPT !.recordBuffers = TRUE, !.ret = <<>>]
    /\ ref' = [ref EXCEPT !.ret = <<>>]
    /\ UNCHANGED <<chunks, one, wr, sink, bitsIn, io, native, log, growing>>

\* what the operation passed to lookAhead does with its commit function:
\* commit only stores a number in committedBits, so the moment of the call
\* matters only through the value commit() captures; the operation calls
\* it, if at all, as its last step
NoCommit == <<"none", 0, 0>>

CommitAll == <<"all", 0, 0>>

CommitCounts ==
    {<<"explicit", n, DefaultBitsPerValue>> : n \in CommitByteCounts}
        \cup {<<"explicit", n, 1>> : n \in CommitBitCounts}

CommitChoices == {NoCommit, CommitAll} \cup CommitCounts

Outcomes == {"return", "throw"}

\* the locals of the invocation when its operation concludes
Concluded(c) ==
    IF c = NoCommit THEN frames[Depth] ELSE commit(rd, frames[Depth], c[2], c[3])

\* what the caller of lookAhead gets: the operation's result, not modelled,
\* or its error
Result(outcome) == IF lookAheadCompletion(outcome) = "throw" THEN <<ERROR>> ELSE <<>>

\* the operation passed to lookAhead concludes with outcome, having used
\* commit as c says
Exit(outcome, c) ==
    /\ Depth > 0
    /\ LET f == Concluded(c)
           r2 == lookAheadFinally(rd, f, chunks, outcome)
           t2 == IF f.committedBits > 0 THEN skipBits(ref, chunks, f.committedBits) ELSE ref
           rest == SubSeq(frames, 1, Depth - 1)
       IN /\ frames' = IF Depth = 1 THEN rest
                       ELSE [rest EXCEPT ![Depth - 1].inner = @ \/ f.inner \/ f.committedBits > 0]
          /\ r2.fresh <= MaxFresh
          /\ rd' = [r2 EXCEPT !.ret = Result(outcome)]
          /\ ref' = IF Depth = 1 THEN [t2 EXCEPT !.ret = Result(outcome)] ELSE ref
    /\ UNCHANGED <<chunks, one, wr, sink, bitsIn, io, native, log, growing>>

ExitLookAhead == \E c \in CommitChoices : Exit("return", c)

ThrowLookAhead == \E c \in CommitChoices : Exit("throw", c)

Next ==
    \/ ReadBits
    \/ ReadUint8
    \/ ReadUint8Array
    \/ SkipBits
    \/ SkipBytes
    \/ EnterLookAhead
    \/ ExitLookAhead
    \/ ThrowLookAhead

Spec == Init /\ [][Next]_vars

---------------------------------------------------------------------------
(* The same bytes delivered in chunks (rd) and as one single chunk (one) *)

Whole == <<Flatten(chunks)>>

InitChunk ==
    /\ chunks \in Chunkings(SubSeq(Bytes, 1, MaxWide), MaxPieces)
    /\ rd = NewReader
    /\ one = NewReader
    /\ ref = NewReader
    /\ frames = <<>>
    /\ wr = NoWriter
    /\ sink = <<>>
    /\ bitsIn = <<>>
    /\ io = NoIO
    /\ log = <<>>
    /\ growing = NoSink
    /\ native = LITTLE

Both(r2, o2) ==
    /\ rd.fresh < MaxFresh
    /\ rd' = r2
    /\ one' = o2
    /\ UNCHANGED <<chunks, ref, frames, wr, sink, bitsIn, io, native, log, growing>>

BothReadBit == Both(readBit(rd, chunks), readBit(one, Whole))

BothReadBits == \E n \in BitCounts :
    Both(readBits(rd, chunks, n), readBits(one, Whole, n))

BothReadUint8 == Both(readUint8(rd, chunks), readUint8(one, Whole))

BothReadInt8 == Both(readInt8(rd, chunks), readInt8(one, Whole))

BothReadUint16 == \E e \in {LITTLE, BIG} :
    Both(readUint16(rd, chunks, e), readUint16(one, Whole, e))

BothReadInt16 == \E e \in {LITTLE, BIG} :
    Both(readInt16(rd, chunks, e), readInt16(one, Whole, e))

BothReadUint32 == \E e \in {LITTLE, BIG} :
    Both(readUint32(rd, chunks, e), readUint32(one, Whole, e))

BothReadInt32 == \E e \in {LITTLE, BIG} :
    Both(readInt32(rd, chunks, e), readInt32(one, Whole, e))

BothReadUint8Array == \E n \in 1..3 :
    Both(readUint8Array(rd, chunks, n), readUint8Array(one, Whole, n))

NextChunk ==
    \/ BothReadBit
    \/ BothReadBits
    \/ BothReadUint8
    \/ BothReadInt8
    \/ BothReadUint16
    \/ BothReadInt16
    \/ BothReadUint32
    \/ BothReadInt32
    \/ BothReadUint8Array

SpecChunk == InitChunk /\ [][NextChunk]_vars

---------------------------------------------------------------------------
(* Skipping next to reading and discarding: rd skips where one, a reader on
   the same chunks, reads the same amount; both perform the same reads
   otherwise *)

\* the count a read returned, in place of the data
Counted(r, n) == [r EXCEPT !.ret = <<n>>]

Pair(r2, o2) ==
    /\ r2.fresh <= MaxFresh
    /\ o2.fresh <= MaxFresh
    /\ rd' = r2
    /\ one' = o2
    /\ UNCHANGED <<chunks, ref, frames, wr, sink, bitsIn, io, native, log, growing>>

SkipBitsOrReadBits == \E n \in BitCounts :
    \E o2 \in {readBits(one, chunks, n)} :
        Pair(skipBits(rd, chunks, n), Counted(o2, Len(o2.ret)))

SkipBytesOrReadBytes == \E n \in 1..2 :
    \E o2 \in {readUint8Array(one, chunks, n)} :
        Pair(skipBytes(rd, chunks, n), Counted(o2, o2.ret[1]))

PairReadBits == \E n \in {3} :
    Pair(readBits(rd, chunks, n), readBits(one, chunks, n))

PairReadUint8 == Pair(readUint8(rd, chunks), readUint8(one, chunks))

NextSkip ==
    \/ SkipBitsOrReadBits
    \/ SkipBytesOrReadBytes
    \/ PairReadBits
    \/ PairReadUint8

SpecSkip == InitChunk /\ [][NextSkip]_vars

---------------------------------------------------------------------------
(* readUint8 next to eight readBit calls: rd and one read the same chunks
   bit by bit up to some bit offset; then rd calls readUint8 where one calls
   readBit eight times *)

\* the byte whose bits are given least significant first; null when fewer
\* than 8 bits were read
Assembled(bits) ==
    IF Len(bits) = 8 THEN (bits[1] + 2 * bits[2] + 4 * bits[3] + 8 * bits[4]
                        + 16 * bits[5] + 32 * bits[6] + 64 * bits[7] + 128 * bits[8])
    ELSE NULL

PairReadBit == Pair(readBit(rd, chunks), readBit(one, chunks))

ReadUint8OrEightBits ==
    \E o2 \in {readBits(one, chunks, 8)} :
        Pair(readUint8(rd, chunks), Counted(o2, Assembled(o2.ret)))

NextByte ==
    \/ PairReadBit
    \/ ReadUint8OrEightBits

\* two bytes in up to MaxParts chunks, so that an empty chunk can lie between
\* the two bytes
InitByte ==
    /\ chunks \in Chunkings(Stream, MaxParts)
    /\ rd = NewReader
    /\ one = NewReader
    /\ ref = NewReader
    /\ frames = <<>>
    /\ wr = NoWriter
    /\ sink = <<>>
    /\ bitsIn = <<>>
    /\ io = NoIO
    /\ log = <<>>
    /\ growing = NoSink
    /\ native = LITTLE

SpecByte == InitByte /\ [][NextByte]_vars

---------------------------------------------------------------------------
(* A fresh reader read bit by bit, and on after the end of the stream *)

\* the bytes of the test "reads single bits"
BitSource == <<202, 53, 255, 0>>

InitBit ==
    /\ chunks \in Chunkings(BitSource, MaxParts)
    /\ rd = NewReader
    /\ one = NewReader
    /\ ref = NewReader
    /\ frames = <<>>
    /\ wr = NoWriter
    /\ sink = <<>>
    /\ bitsIn = <<>>
    /\ io = NoIO
    /\ log = <<>>
    /\ growing = NoSink
    /\ native = LITTLE

ReadBit ==
    /\ \E r2 \in {readBit(rd, chunks)} :
          /\ r2.fresh <= MaxFresh
          /\ rd' = r2
    /\ UNCHANGED <<chunks, one, ref, frames, wr, sink, bitsIn, io, native, log, growing>>

NextBit == ReadBit

SpecBit == InitBit /\ [][NextBit]_vars

---------------------------------------------------------------------------
(* Reading on after the end of the stream: one reader reads and skips up to
   and beyond the end of the stream. log is not empty once a single-value
   read has returned null with the source done. *)

\* the calls that find the source done
MaxEnds == 3

InitEnd ==
    /\ chunks \in Chunkings(Stream, MaxPieces)
    /\ rd = NewReader
    /\ one = NewReader
    /\ ref = NewReader
    /\ frames = <<>>
    /\ wr = NoWriter
    /\ sink = <<>>
    /\ bitsIn = <<>>
    /\ io = NoIO
    /\ log = <<>>
    /\ growing = NoSink
    /\ native = LITTLE

\* a read of a single value
EndValue(r2) ==
    /\ r2.fresh <= MaxEnds
    /\ rd' = r2
    /\ log' = IF r2.srcDone /\ r2.ret = <<NULL>> THEN <<"ended">> ELSE log
    /\ UNCHANGED <<chunks, one, ref, frames, wr, sink, bitsIn, io, native, growing>>

\* a read or a skip that returns a count or a list
EndCount(r2) ==
    /\ r2.fresh <= MaxEnds
    /\ rd' = r2
    /\ UNCHANGED <<chunks, one, ref, frames, wr, sink, bitsIn, io, native, log, growing>>

EndReadBit == EndValue(readBit(rd, chunks))

EndReadUint8 == EndValue(readUint8(rd, chunks))

EndReadUint16 == \E e \in {LITTLE, BIG} : EndValue(readUint16(rd, chunks, e))

EndReadBits == \E n \in {3} : EndCount(readBits(rd, chunks, n))

EndReadUint8Array == \E n \in {1, 2} : EndCount(readUint8Array(rd, chunks, n))

EndSkipBits == \E n \in BitCounts : EndCount(skipBits(rd, chunks, n))

EndSkipBytes == \E n \in {1} : EndCount(skipBytes(rd, chunks, n))

NextEnd ==
    \/ EndReadBit
    \/ EndReadUint8
    \/ EndReadUint16
    \/ EndReadBits
    \/ EndReadUint8Array
    \/ EndSkipBits
    \/ EndSkipBytes

SpecEnd == InitEnd /\ [][NextEnd]_vars

---------------------------------------------------------------------------
(* Strings read at and outside the byte boundary: rd reads the text from
   chunks, ref reads it from a single chunk, and one reads it, shifted by
   four bits, after four single bits *)

\* "Str\0A\r\n\nB"
Text == <<83, 116, 114, 0, 65, 13, 10, 10, 66>>

\* "a\r\n\n\0b" in UTF-16LE
Text16 == <<97, 0, 13, 0, 10, 0, 10, 0, 0, 0, 98, 0>>

\* the bytes of each 16 bit unit swapped: the same text in UTF-16BE
Swapped(bytes) ==
    [i \in 1..Len(bytes) |-> IF i % 2 = 1 THEN bytes[i + 1] ELSE bytes[i - 1]]

\* the text a reader constructed with the given encoding option reads
TextIn(encoding) ==
    IF encoding = UTF16LE THEN Text16
    ELSE IF encoding = UTF16BE THEN Swapped(Text16)
    ELSE Text

\* the source delivers the start of the text in the given encoding
Delivers(encoding) ==
    /\ Len(Flatten(chunks)) <= Len(TextIn(encoding))
    /\ Flatten(chunks) = SubSeq(TextIn(encoding), 1, Len(Flatten(chunks)))

\* the values of maxBytes the callers pass
Limits == {NoMax, 0, 1, 2}

\* the values of the encoding option the callers pass
Encodings == {UTF8, UTF16LE, UTF16BE}

\* shift4Bits of the reader's tests
shift4Bits(values) ==
    [i \in 1..(Len(values) + 1) |->
        Shl(LowBits(IF i <= Len(values) THEN values[i] ELSE 0, 4), 4)
        + (IF i > 1 THEN Shr(values[i - 1], 4) ELSE 0)]

Shifted == <<shift4Bits(Flatten(chunks))>>

InitString ==
    /\ chunks \in UNION {Chunkings(TextIn(encoding), MaxPieces) : encoding \in Encodings}
    /\ rd = NewReader
    /\ one = NewReader
    /\ ref = NewReader
    /\ frames = <<>>
    /\ wr = NoWriter
    /\ sink = <<>>
    /\ bitsIn = <<>>
    /\ io = NoIO
    /\ log = <<>>
    /\ growing = NoSink
    /\ native = LITTLE

\* the four readBit calls that bring one off the byte boundary
ReadLeadBits ==
    /\ one.bitsRead = 0
    /\ one' = readBits(one, Shifted, 4)
    /\ UNCHANGED <<chunks, rd, ref, frames, wr, sink, bitsIn, io, native, log, growing>>

Trio(r2, f2, o2) ==
    /\ one.bitsRead > 0
    /\ r2.fresh <= MaxFresh
    /\ f2.fresh <= MaxFresh
    /\ o2.fresh <= MaxFresh
    /\ rd' = r2
    /\ ref' = f2
    /\ one' = o2
    /\ UNCHANGED <<chunks, frames, wr, sink, bitsIn, io, native, log, growing>>

ReadNullTerminatedStringIn(encoding, m) ==
    /\ Delivers(encoding)
    /\ Trio(readNullTerminatedString(rd, chunks, encoding, m),
            readNullTerminatedString(ref, Whole, encoding, m),
            readNullTerminatedString(one, Shifted, encoding, m))

ReadNullTerminatedStringMax(m) == ReadNullTerminatedStringIn(UTF8, m)

ReadNullTerminatedString == \E encoding \in Encodings : \E m \in Limits :
    ReadNullTerminatedStringIn(encoding, m)

ReadLineIn(includeEOL, encoding, m) ==
    /\ Delivers(encoding)
    /\ Trio(readLine(rd, chunks, includeEOL, encoding, m),
            readLine(ref, Whole, includeEOL, encoding, m),
            readLine(one, Shifted, includeEOL, encoding, m))

ReadLineWith(includeEOL, m) == ReadLineIn(includeEOL, UTF8, m)

ReadLine == \E includeEOL \in BOOLEAN : \E encoding \in Encodings : \E m \in Limits :
    ReadLineIn(includeEOL, encoding, m)

NextString ==
    \/ ReadLeadBits
    \/ ReadNullTerminatedString
    \/ ReadLine

SpecString == InitString /\ [][NextString]_vars

\* the lines of a text read with and without their EOL markers; the source
\* delivers the text in two chunks, split at any place
InitLine ==
    /\ chunks \in UNION {{<<SubSeq(TextIn(encoding), 1, k),
                            SubSeq(TextIn(encoding), k + 1, Len(TextIn(encoding)))>> :
                              k \in 0..Len(TextIn(encoding))} : encoding \in Encodings}
    /\ rd = NewReader
    /\ one = NewReader
    /\ ref = NewReader
    /\ frames = <<>>
    /\ wr = NoWriter
    /\ sink = <<>>
    /\ bitsIn = <<>>
    /\ io = NoIO
    /\ log = <<>>
    /\ growing = NoSink
    /\ native = LITTLE

NextLine ==
    \/ ReadLeadBits
    \/ ReadLine

SpecLine == InitLine /\ [][NextLine]_vars

---------------------------------------------------------------------------
(* A text read line by line, EOL markers kept, until readLine returns null:
   bitsIn holds the bits that precede the text in the stream, sink collects
   the bytes of the lines, log the outcome of each call *)

\* "", "A", "A\nB", "\r\n\n"
LineTexts == {<<>>, <<65>>, <<65, 10, 66>>, <<13, 10, 10>>}

RECURSIVE encode8(_)
\* TextEncoder.encode on what decode8 returns
encode8(string) ==
    IF string = <<>> THEN <<>>
    ELSE (IF Head(string) = Replacement THEN <<239, 191, 189>> ELSE <<Head(string)>>)
         \o encode8(Tail(string))

\* the whole bytes that follow the first four bits of a stream
unshift4Bits(values) ==
    [i \in 1..(IF values = <<>> THEN 0 ELSE Len(values) - 1) |->
        Shr(values[i], 4) + Shl(LowBits(values[i + 1], 4), 4)]

\* the bytes the source delivers after the leading bits
Input == IF bitsIn = <<>> THEN Flatten(chunks) ELSE unshift4Bits(Flatten(chunks))

InitLines ==
    /\ \E text \in LineTexts : \E lead \in {<<>>, <<0, 0, 0, 0>>} :
        /\ bitsIn = lead
        /\ chunks \in Chunkings(IF lead = <<>> THEN text ELSE shift4Bits(text), MaxPieces)
    /\ rd = NewReader
    /\ one = NewReader
    /\ ref = NewReader
    /\ frames = <<>>
    /\ wr = NoWriter
    /\ sink = <<>>
    /\ io = NoIO
    /\ log = <<>>
    /\ growing = NoSink
    /\ native = LITTLE

\* the readBit calls that bring the reader off the byte boundary
LinesLeadBits ==
    /\ bitsIn # <<>>
    /\ log = <<>>
    /\ rd' = readBits(rd, chunks, Len(bitsIn))
    /\ log' = <<"bits">>
    /\ UNCHANGED <<chunks, ref, one, frames, wr, sink, bitsIn, io, native, growing>>

\* readLine({ includeEOL: true }), called until it has returned null
LinesReadLine ==
    /\ IF log = <<>> THEN bitsIn = <<>> ELSE log[Len(log)] # "null"
    /\ LET r2 == readLine(rd, chunks, TRUE, UTF8, NoMax)
       IN /\ rd' = r2
          /\ sink' = IF r2.ret = <<NULL>> THEN sink ELSE sink \o encode8(r2.ret)
          /\ log' = Append(log, IF r2.ret = <<NULL>> THEN "null" ELSE "line")
    /\ UNCHANGED <<chunks, ref, one, frames, wr, bitsIn, io, native, growing>>

NextLines ==
    \/ LinesLeadBits
    \/ LinesReadLine

SpecLines == InitLines /\ [][NextLines]_vars

---------------------------------------------------------------------------
(* Array reads into a typed array of the caller, on a little-endian and on a
   big-endian platform *)

\* the bytes of the source of the array reads
ArrayBytes == <<17, 34, 51, 68, 85, 102, 119, 136, 153>>

\* the number of elements of the caller's typed array
ArrayLength == 3

\* the byte every cell of the caller's typed array holds before the read
Filler == 238

\* the widths in bytes of the elements of the typed arrays
Widths == {1, 2, 4, 8}

NewArray(w) == [i \in 1..(ArrayLength * w) |-> Filler]

InitArray ==
    /\ chunks \in Chunkings(ArrayBytes, MaxPieces)
    /\ native \in {LITTLE, BIG}
    /\ rd = NewReader
    /\ one = NewReader
    /\ ref = NewReader
    /\ frames = <<>>
    /\ wr = NoWriter
    /\ sink = <<>>
    /\ bitsIn = <<>>
    /\ io = NoIO
    /\ log = <<>>
    /\ growing = NoSink

Single(r2) ==
    /\ r2.fresh <= MaxFresh
    /\ rd' = r2
    /\ UNCHANGED <<chunks, ref, one, frames, wr, sink, bitsIn, io, native, log, growing>>

\* readBits(4) on the fresh reader brings it off the byte boundary
ArrayReadBits ==
    /\ rd.bitsRead = 0
    /\ Single(readBits(rd, chunks, 4))

\* readUint8Array(buffer, offset, size) for w = 1, and
\* readUint16Array, readUint32Array, readBigUint64Array(buffer, { offset,
\* size, endianness }) for w = 2, 4, 8
ReadArrayOf(w, offset, size, endianness) ==
    Single(IF w = 1 THEN readIntoMemory(rd, chunks, 1, NewArray(1), offset, size)
           ELSE readArray(rd, chunks, w, NewArray(w), offset, size, endianness, native))

ReadArray == \E w \in Widths : \E offset \in {0, 1} : \E size \in {1, 2} :
    \E endianness \in {LITTLE, BIG} : ReadArrayOf(w, offset, size, endianness)

NextArray ==
    \/ ArrayReadBits
    \/ ReadArray

SpecArray == InitArray /\ [][NextArray]_vars

---------------------------------------------------------------------------
(* DataWriter *)

\* an option the caller did not give
NoOption == "none"

\* the constructor's "endianness = Endianness.LITTLE"
writerEndianness(option) == IF option = NoOption THEN LITTLE ELSE option

\* a writer constructed with a bufferSize and no endianness option
NewWriter(bufferSize) ==
    [buffer |-> [i \in 1..bufferSize |-> 0], bufferSize |-> bufferSize,
     endianness |-> writerEndianness(NoOption),
     byte |-> 0, bit |-> 0, written |-> 0, flushed |-> FALSE]

getEndianness(w) == w.endianness

\* b | (v << k) for a bit v
OrBit(b, k, v) == IF v = 1 /\ Shr(b, k) % 2 = 0 THEN b + 2 ^ k ELSE b

\* flush(): st = [w, sink]
flush(st) ==
    LET w == st.w
    IN IF w.byte > 0 \/ w.bit > 0
       THEN [w |-> [w EXCEPT !.byte = 0, !.bit = 0],
             sink |-> Append(st.sink,
                             SubSeq(w.buffer, 1, w.byte + (IF w.bit > 0 THEN 1 ELSE 0)))]
       ELSE st

writeBit(st, value) ==
    LET w == st.w
        w1 == [w EXCEPT !.buffer[w.byte + 1] = OrBit(@, w.bit, value % 2), !.bit = @ + 1]
    IN IF w1.bit >= 8
       THEN LET w2 == [w1 EXCEPT !.bit = 0, !.byte = @ + 1, !.written = @ + 1]
            IN IF w2.byte >= w2.bufferSize
               THEN flush([w |-> w2, sink |-> st.sink])
               ELSE [w |-> w2, sink |-> st.sink]
       ELSE [w |-> w1, sink |-> st.sink]

InitWriter ==
    /\ wr \in {NewWriter(n) : n \in 1..MaxBufferSize}
    /\ sink = <<>>
    /\ bitsIn = <<>>
    /\ io = NoIO
    /\ log = <<>>
    /\ growing = NoSink
    /\ native = LITTLE
    /\ chunks = <<>>
    /\ rd = NewReader
    /\ one = NewReader
    /\ ref = NewReader
    /\ frames = <<>>

\* the 20 bits of the test "writes single bits" up to its first flush
Scenario == <<1, 1, 0, 0, 1, 0, 1, 0, 0, 0, 1, 1, 0, 1, 0, 1, 0, 0, 1, 1>>

IsPrefix(a, b) == Len(a) <= Len(b) /\ a = SubSeq(b, 1, Len(a))

\* the caller writes any bit sequence of up to MaxWriteBits bits, or the
\* bits of Scenario
WriteBitValue(v) ==
    /\ ~wr.flushed
    /\ Len(bitsIn) < MaxWriteBits \/ IsPrefix(Append(bitsIn, v), Scenario)
    /\ LET st == writeBit([w |-> wr, sink |-> sink], v)
       IN /\ wr' = st.w
          /\ sink' = st.sink
    /\ bitsIn' = Append(bitsIn, v)
    /\ UNCHANGED <<chunks, rd, one, ref, frames, io, native, log, growing>>

WriteBit == \E v \in {0, 1} : WriteBitValue(v)

\* the caller's final flush(); nothing is written after it
Flush ==
    /\ ~wr.flushed
    /\ LET st == flush([w |-> wr, sink |-> sink])
       IN /\ wr' = [st.w EXCEPT !.flushed = TRUE]
          /\ sink' = st.sink
    /\ UNCHANGED <<chunks, rd, one, ref, frames, bitsIn, io, native, log, growing>>

NextWriter ==
    \/ WriteBit
    \/ Flush

SpecWriter == InitWriter /\ [][NextWriter]_vars

---------------------------------------------------------------------------
(* DataWriter and an asynchronous sink: every writer method runs
   synchronously up to the sink.write() of a flush, so the calls change the
   writer in call order; what is asynchronous is the settling of the
   promises. A state of a call is [w, sink, awaited]: awaited holds the sink
   writes whose promises the promise returned by the call awaits. *)

\* the sink writes started between two states of the sink
StartedBy(before, after) == (Len(before) + 1)..Len(after)

\* flush(), with the sink write its promise awaits
flushP(st) ==
    LET s2 == flush([w |-> st.w, sink |-> st.sink])
    IN [w |-> s2.w, sink |-> s2.sink, awaited |-> StartedBy(st.sink, s2.sink)]

\* writeBit(value): its promise awaits the flush it calls
writeBitP(st, value) ==
    LET s2 == writeBit([w |-> st.w, sink |-> st.sink], value)
    IN [w |-> s2.w, sink |-> s2.sink, awaited |-> StartedBy(st.sink, s2.sink)]

\* writeUint8 outside a byte boundary: bits 0..6 by "void this.writeBit",
\* bit 7 by "await this.writeBit"
RECURSIVE writeBitsFrom(_, _, _)
writeBitsFrom(st, value, i) ==
    LET s1 == writeBitP(st, Shr(value, i) % 2)
    IN IF i >= 7 THEN s1 ELSE writeBitsFrom(s1, value, i + 1)

\* a writeUint8 that flushes as soon as a byte is in the buffer
writeUint8Eager(st, value) ==
    LET w == st.w
    IN IF w.bit = 0
       THEN LET w1 == [w EXCEPT !.buffer[w.byte + 1] = value % 256,
                                !.byte = @ + 1, !.written = @ + 1]
            IN flushP([w |-> w1, sink |-> st.sink, awaited |-> {}])
       ELSE writeBitsFrom(st, value, 0)

writeUint8(st, value) ==
    LET w == st.w
    IN IF w.bit = 0
       THEN LET w1 == [w EXCEPT !.buffer[w.byte + 1] = value % 256,
                                !.byte = @ + 1, !.written = @ + 1]
                s1 == [w |-> w1, sink |-> st.sink, awaited |-> {}]
            IN IF w1.byte >= w1.bufferSize THEN flushP(s1) ELSE s1
       ELSE writeBitsFrom(st, value, 0)

\* writeUint16: the first byte by "void this.writeUint8", the second by
\* "await this.writeUint8"
writeUint16(st, value, endianness) ==
    IF endianness = LITTLE
    THEN writeUint8(writeUint8(st, value % 256), value \div 256)
    ELSE writeUint8(writeUint8(st, value \div 256), value % 256)

\* writeUint32 of the value <<value >>> 16, value & 0xffff>>
writeUint32(st, value, endianness) ==
    IF endianness = LITTLE
    THEN Only({writeUint16(s1, value[1], endianness)
               : s1 \in {writeUint16(st, value[2], endianness)}})
    ELSE Only({writeUint16(s1, value[2], endianness)
               : s1 \in {writeUint16(st, value[1], endianness)}})

\* writeBigUint64 of the value given as its four 16 bit parts, most
\* significant first
writeBigUint64(st, value, endianness) ==
    IF endianness = LITTLE
    THEN Only({writeUint32(s1, SubSeq(value, 1, 2), endianness)
               : s1 \in {writeUint32(st, SubSeq(value, 3, 4), endianness)}})
    ELSE Only({writeUint32(s1, SubSeq(value, 3, 4), endianness)
               : s1 \in {writeUint32(st, SubSeq(value, 1, 2), endianness)}})

\* writeUint8s at a byte boundary: copies as much as the buffer takes and
\* flushes, keeping the promise of the last flush only
RECURSIVE writeAlignedLoop(_, _, _)
writeAlignedLoop(st, values, start) ==
    IF start >= Len(values) THEN st
    ELSE LET w == st.w
             end == Min(start + w.bufferSize - w.byte, Len(values))
             n == end - start
             w1 == [w EXCEPT !.buffer = [i \in 1..w.bufferSize |->
                                            IF i > w.byte /\ i <= w.byte + n
                                            THEN values[start + i - w.byte] % 256
                                            ELSE w.buffer[i]],
                             !.byte = @ + n, !.written = @ + n]
             s1 == [w |-> w1, sink |-> st.sink, awaited |-> st.awaited]
         IN writeAlignedLoop(IF w1.byte >= w1.bufferSize THEN flushP(s1) ELSE s1, values, end)

\* writeUint8s outside a byte boundary: one writeUint8 per value, keeping the
\* promise of the last one only
RECURSIVE writeUnalignedLoop(_, _, _)
writeUnalignedLoop(st, values, i) ==
    IF i > Len(values) THEN st
    ELSE writeUnalignedLoop(writeUint8(st, values[i]), values, i + 1)

writeUint8s(st, values) ==
    IF st.w.bit = 0 THEN writeAlignedLoop(st, values, 0)
    ELSE writeUnalignedLoop(st, values, 1)

RECURSIVE Zeros(_)
Zeros(n) == IF n <= 0 THEN <<>> ELSE <<0>> \o Zeros(n - 1)

\* the bits of the low n bits of a value, least significant first
RECURSIVE BitsOf(_, _)
BitsOf(value, n) == IF n <= 0 THEN <<>> ELSE <<value % 2>> \o BitsOf(value \div 2, n - 1)

RECURSIVE BitsOfAll(_)
BitsOfAll(values) ==
    IF values = <<>> THEN <<>> ELSE BitsOf(values[1], 8) \o BitsOfAll(Tail(values))

ByteValues == {0, 255}
WordValues == {255}
ArrayValues == {<<255, 0, 255>>}

\* a call of a writer method by a caller that may or may not await the
\* previous calls: s2 is the state the call leaves, bits what it was given
Call(op, s2, bits) ==
    /\ io.calls < MaxCalls
    /\ wr' = s2.w
    /\ sink' = s2.sink
    /\ bitsIn' = bitsIn \o bits
    /\ io' = [status |-> io.status \o [i \in 1..(Len(s2.sink) - Len(sink)) |-> "pending"],
              started |-> StartedBy(sink, s2.sink),
              awaited |-> s2.awaited,
              op |-> op,
              calls |-> io.calls + 1]
    /\ UNCHANGED <<chunks, rd, one, ref, frames, native, log, growing>>

Before == [w |-> wr, sink |-> sink, awaited |-> {}]

CallWriteBit == \E v \in {0, 1} :
    Call("writeBit", writeBitP(Before, v), <<v>>)

CallWriteUint8 == \E v \in ByteValues :
    Call("writeUint8", writeUint8(Before, v), BitsOf(v, 8))

CallWriteUint16 == \E v \in WordValues : \E e \in {LITTLE, BIG} :
    Call("writeUint16", writeUint16(Before, v, e),
         IF e = LITTLE THEN BitsOf(v, 16) ELSE BitsOf(v \div 256, 8) \o BitsOf(v, 8))

CallWriteUint8s == \E values \in ArrayValues :
    Call("writeUint8s", writeUint8s(Before, values), BitsOfAll(values))

\* flush() pads a partial byte with zero bits
CallFlush ==
    Call("flush", flushP(Before), Zeros((8 - wr.bit) % 8))

\* the sink settles its oldest pending write
SinkSettles(outcome) == \E i \in 1..Len(io.status) :
    /\ io.status[i] = "pending"
    /\ \A j \in 1..(i - 1) : io.status[j] # "pending"
    /\ io' = [io EXCEPT !.status[i] = outcome]
    /\ UNCHANGED <<chunks, rd, one, ref, frames, wr, sink, bitsIn, native, log, growing>>

SinkAcknowledges == SinkSettles("ok")

SinkFails == SinkSettles("failed")

NextSink ==
    \/ CallWriteBit
    \/ CallWriteUint8
    \/ CallWriteUint16
    \/ CallWriteUint8s
    \/ CallFlush
    \/ SinkAcknowledges
    \/ SinkFails

SpecSink == InitWriter /\ [][NextSink]_vars

---------------------------------------------------------------------------
(* DataWriter and DataReader back to back: the caller writes single bits and
   16, 32 and 64 bit values, flushes, and reads what the sink received with
   the reads that match the writes. log holds the values written and not yet
   read back. *)

MaxLog == 3

Values16 == {<<41394>>}
Values32 == {<<41394, 50132>>}
Values64 == {<<41394, 50132, 58870, 1816>>}
ValuesOf(width) ==
    CASE width = 16 -> Values16
      [] width = 32 -> Values32
      [] width = 64 -> Values64

\* "endianness: Endianness = this.endianness" of the multi-byte writes
writeValue(st, width, value, endianness) ==
    CASE width = 1 -> writeBitP(st, value[1])
      [] width = 16 -> writeUint16(st, value[1], endianness)
      [] width = 32 -> writeUint32(st, value, endianness)
      [] width = 64 -> writeBigUint64(st, value, endianness)

\* the bytes of a value given as its 16 bit parts, most significant first;
\* the first part of a signed value is negative when the value is
partBytes(part) == <<(part % 65536) \div 256, part % 256>>

valueBytes(value) == Flatten([i \in 1..Len(value) |-> partBytes(value[i])])

\* new Uint8Array(values.buffer, values.byteOffset, values.byteLength) of the
\* typed array made from the values, on a platform of the given byte order
typedArray(values, platform) ==
    Flatten([i \in 1..Len(values) |-> elementBytes(valueBytes(values[i]), platform)])

\* "for (const value of values) lastPromise = this.writeUint16(value, endianness)"
RECURSIVE writeEach(_, _, _, _, _)
writeEach(st, width, values, endianness, i) ==
    IF i > Len(values) THEN st
    ELSE Only({writeEach(s1, width, values, endianness, i + 1)
               : s1 \in {writeValue(st, width, values[i], endianness)}})

\* writeUint16s, writeInt16s, writeUint32s and writeInt32s take the bulk path
\* when the endianness is the platform's, writeBigUint64s and writeBigInt64s
\* when it is LITTLE
writeArray(st, width, values, endianness, platform) ==
    IF (IF width = 64 THEN endianness = LITTLE ELSE endianness = platform)
    THEN writeUint8s(st, typedArray(values, platform))
    ELSE writeEach(st, width, values, endianness, 1)

readValue(r, ch, width, endianness) ==
    CASE width = 1 -> readBit(r, ch)
      [] width = 16 -> readUint16(r, ch, endianness)
      [] width = 32 -> readUint32(r, ch, endianness)
      [] width = 64 -> readBigUint64(r, ch, endianness)

InitRound ==
    /\ native \in {LITTLE, BIG}
    /\ wr \in {NewWriter(n) : n \in 1..MaxBufferSize}
    /\ sink = <<>>
    /\ bitsIn = <<>>
    /\ io = NoIO
    /\ log = <<>>
    /\ growing = NoSink
    /\ chunks = <<>>
    /\ rd = NewReader
    /\ one = NewReader
    /\ ref = NewReader
    /\ frames = <<>>

\* a write of the width with the endianness given, or with the writer's own
\* when none is given
RoundWriteOf(width, value, endianness) ==
    /\ ~wr.flushed
    /\ Len(log) < MaxLog
    /\ \E st \in {writeValue(Before, width, value,
                             IF endianness = NoOption THEN wr.endianness ELSE endianness)} :
          /\ wr' = st.w
          /\ sink' = st.sink
    /\ log' = Append(log, [width |-> width, value |-> value, endianness |-> endianness,
                            array |-> FALSE])
    /\ UNCHANGED <<chunks, rd, one, ref, frames, bitsIn, io, native, growing>>

RoundWriteBit == \E v \in {0, 1} : RoundWriteOf(1, <<v>>, NoOption)

RoundWrite == \E width \in {16, 32, 64} : \E value \in ValuesOf(width) :
    \E endianness \in {LITTLE, BIG, NoOption} : RoundWriteOf(width, value, endianness)

\* arrays of two elements, unsigned and signed
ArraysOf(width) ==
    CASE width = 16 -> {<<<<41394>>, <<258>>>>, <<<<-2>>, <<258>>>>}
      [] width = 32 -> {<<<<41394, 50132>>, <<1, 2>>>>, <<<<-2, 50132>>, <<1, 2>>>>}
      [] width = 64 -> {<<<<41394, 50132, 58870, 1816>>, <<1, 2, 3, 4>>>>,
                        <<<<-2, 50132, 58870, 1816>>, <<1, 2, 3, 4>>>>}

\* a write of an array of the width with the endianness given
RoundWriteArrayOf(width, values, endianness) ==
    /\ ~wr.flushed
    /\ Len(log) + Len(values) <= MaxLog
    /\ \E st \in {writeArray(Before, width, values, endianness, native)} :
          /\ wr' = st.w
          /\ sink' = st.sink
    /\ log' = log \o [i \in 1..Len(values) |->
                         [width |-> width, value |-> values[i], endianness |-> endianness,
                          array |-> TRUE]]
    /\ UNCHANGED <<chunks, rd, one, ref, frames, bitsIn, io, native, growing>>

RoundWriteArray == \E width \in {16, 32, 64} : \E values \in ArraysOf(width) :
    \E endianness \in {LITTLE, BIG} : RoundWriteArrayOf(width, values, endianness)

\* the caller's final flush(); the reader's source delivers what the sink
\* received, chunk by chunk
RoundFlush ==
    /\ ~wr.flushed
    /\ log # <<>>
    /\ \E st \in {flush([w |-> wr, sink |-> sink])} :
          /\ wr' = [st.w EXCEPT !.flushed = TRUE]
          /\ sink' = st.sink
          /\ chunks' = st.sink
    /\ UNCHANGED <<rd, one, ref, frames, bitsIn, io, native, log, growing>>

\* the read that matches the oldest write not yet read back; what was
\* written without an endianness is read in the platform's byte order
RoundRead ==
    /\ wr.flushed
    /\ log # <<>>
    /\ rd' = readValue(rd, chunks, Head(log).width,
                       IF Head(log).endianness = NoOption THEN native
                       ELSE Head(log).endianness)
    /\ log' = Tail(log)
    /\ UNCHANGED <<chunks, one, ref, frames, wr, sink, bitsIn, io, native, growing>>

NextRound ==
    \/ RoundWriteBit
    \/ RoundWrite
    \/ RoundWriteArray
    \/ RoundFlush
    \/ RoundRead

SpecRound == InitRound /\ [][NextRound]_vars

---------------------------------------------------------------------------
(* Uint8ArraySink: the caller writes bytes and arrays of bytes, resets and
   rewinds *)

MaxCapacity == 3
MaxSize == 24

\* the lengths of the arrays written; 3, 1 and 16 are those of the test
\* "builds a Uint8Array with a growing buffer"
Lengths == {0, 1, 3, 16}

\* the n bytes that continue 1, 2, 3, ... after the bytes the sink holds
Continue(n) == [i \in 1..n |-> (growing.size + i) % 256]

InitGrow ==
    /\ growing \in {NewSink(capacity) : capacity \in 0..MaxCapacity}
    /\ chunks = <<>>
    /\ rd = NewReader
    /\ one = NewReader
    /\ ref = NewReader
    /\ frames = <<>>
    /\ wr = NoWriter
    /\ sink = <<>>
    /\ bitsIn = <<>>
    /\ io = NoIO
    /\ log = <<>>
    /\ native = LITTLE

\* a write returns when its loop ends: with capacity 0 and a new size above
\* 0 "capacity += capacity" never reaches the new size
Returns(bytes) == growing.capacity > 0 \/ growing.size + Len(bytes) <= growing.capacity

GrowWrite(bytes) ==
    /\ growing.size + Len(bytes) <= MaxSize
    /\ Returns(bytes)
    /\ growing' = write(growing, bytes)
    /\ UNCHANGED <<chunks, rd, frames, ref, one, wr, sink, bitsIn, io, native, log>>

GrowWriteArray == \E n \in Lengths : GrowWrite(Continue(n))

GrowWriteByte == GrowWrite(Continue(1))

GrowReset ==
    /\ growing' = reset(growing)
    /\ UNCHANGED <<chunks, rd, frames, ref, one, wr, sink, bitsIn, io, native, log>>

GrowRewind == \E numBytes \in {1, 2} :
    /\ growing' = rewind(growing, numBytes)
    /\ UNCHANGED <<chunks, rd, frames, ref, one, wr, sink, bitsIn, io, native, log>>

NextGrow ==
    \/ GrowWriteByte
    \/ GrowWriteArray
    \/ GrowReset
    \/ GrowRewind

SpecGrow == InitGrow /\ [][NextGrow]_vars

---------------------------------------------------------------------------
(* Uint8ArraySink and its contents: the caller writes bytes and arrays of
   differing bytes, resets and rewinds; log holds what the sink should hold *)

MaxData == 4

\* the arrays and the numbers written
ArraysWritten == {<<>>, <<1, 2>>, <<2, 2, 1>>}
NumbersWritten == {1, 2}

InitData ==
    /\ growing \in {NewSink(capacity) : capacity \in 0..MaxCapacity}
    /\ chunks = <<>>
    /\ rd = NewReader
    /\ one = NewReader
    /\ ref = NewReader
    /\ frames = <<>>
    /\ wr = NoWriter
    /\ sink = <<>>
    /\ bitsIn = <<>>
    /\ io = NoIO
    /\ log = <<>>
    /\ native = LITTLE

DataWrite(bytes) ==
    /\ growing.size + Len(bytes) <= MaxData
    /\ Returns(bytes)
    /\ growing' = write(growing, bytes)
    /\ log' = log \o bytes
    /\ UNCHANGED <<chunks, rd, frames, ref, one, wr, sink, bitsIn, io, native>>

DataWriteArray == \E bytes \in ArraysWritten : DataWrite(bytes)

DataWriteNumber == \E chunk \in NumbersWritten : DataWrite(<<chunk>>)

DataReset ==
    /\ growing' = reset(growing)
    /\ log' = <<>>
    /\ UNCHANGED <<chunks, rd, frames, ref, one, wr, sink, bitsIn, io, native>>

DataRewind == \E numBytes \in {1, 2} :
    /\ growing' = rewind(growing, numBytes)
    /\ log' = SubSeq(log, 1, IF Len(log) > numBytes THEN Len(log) - numBytes ELSE 0)
    /\ UNCHANGED <<chunks, rd, frames, ref, one, wr, sink, bitsIn, io, native>>

NextData ==
    \/ DataWriteNumber
    \/ DataWriteArray
    \/ DataReset
    \/ DataRewind

SpecData == InitData /\ [][NextData]_vars

---------------------------------------------------------------------------
(* Endianness.swap16, swap32 and swap64. A number under the bitwise
   operators is a 32 bit pattern, kept as its 4 bytes, most significant
   first, and read as a signed value unless ">>> 0" made it unsigned. A
   bigint is not cut to a width: it is kept in 16 bytes, of which a 64 bit
   value fills the lower 8. log holds the last swap made. *)

NumberWidth == 4
BigWidth == 16

RECURSIVE BitOr(_, _, _)
BitOr(a, b, n) ==
    IF n = 0 THEN 0
    ELSE (IF a % 2 = 1 \/ b % 2 = 1 THEN 1 ELSE 0) + 2 * BitOr(a \div 2, b \div 2, n - 1)

RECURSIVE BitAnd(_, _, _)
BitAnd(a, b, n) ==
    IF n = 0 THEN 0
    ELSE (IF a % 2 = 1 /\ b % 2 = 1 THEN 1 ELSE 0) + 2 * BitAnd(a \div 2, b \div 2, n - 1)

\* a | b and a & b
OrBytes(a, b) ==
    Only({[i \in 1..Len(p[1]) |-> BitOr(p[1][i], p[2][i], 8)] : p \in {<<a, b>>}})
AndBytes(a, b) ==
    Only({[i \in 1..Len(p[1]) |-> BitAnd(p[1][i], p[2][i], 8)] : p \in {<<a, b>>}})

\* 0xff << (8 * j)
Mask(width, j) == [i \in 1..width |-> IF i = width - j THEN 255 ELSE 0]

\* a << (8 * n), a >> (8 * n), which keeps the sign, and a >>> (8 * n)
ShlBytes(a, n) ==
    Only({[i \in 1..Len(p) |-> IF i + n <= Len(p) THEN p[i + n] ELSE 0] : p \in {a}})
SarBytes(a, n) ==
    Only({[i \in 1..Len(p) |-> IF i - n >= 1 THEN p[i - n]
                               ELSE IF p[1] >= 128 THEN 255 ELSE 0] : p \in {a}})
ShrBytes(a, n) ==
    Only({[i \in 1..Len(p) |-> IF i - n >= 1 THEN p[i - n] ELSE 0] : p \in {a}})

\* the result of a bitwise operator, a signed 32 bit value, and of ">>> 0"
Signed(pattern) == [bytes |-> pattern, negative |-> pattern[1] >= 128]
Unsigned(pattern) == [bytes |-> pattern, negative |-> FALSE]

swap16(value) ==
    Signed(OrBytes(ShlBytes(AndBytes(value, Mask(NumberWidth, 0)), 1), SarBytes(value, 1)))

\* a swap32 without the final ">>> 0"
swap32Signed(value) ==
    Signed(OrBytes(OrBytes(ShlBytes(AndBytes(value, Mask(NumberWidth, 0)), 3),
                           ShlBytes(AndBytes(value, Mask(NumberWidth, 1)), 1)),
                   OrBytes(SarBytes(AndBytes(value, Mask(NumberWidth, 2)), 1),
                           ShrBytes(value, 3))))

swap32(value) ==
    Unsigned(OrBytes(OrBytes(ShlBytes(AndBytes(value, Mask(NumberWidth, 0)), 3),
                             ShlBytes(AndBytes(value, Mask(NumberWidth, 1)), 1)),
                     OrBytes(SarBytes(AndBytes(value, Mask(NumberWidth, 2)), 1),
                             ShrBytes(value, 3))))

\* a value of the unsigned 64 bit range is not negative, so that ">>" of the
\* bigint fills with zeros
swap64(value) ==
    Unsigned(OrBytes(
        OrBytes(OrBytes(ShlBytes(AndBytes(value, Mask(BigWidth, 0)), 7),
                        ShlBytes(AndBytes(value, Mask(BigWidth, 1)), 5)),
                OrBytes(ShlBytes(AndBytes(value, Mask(BigWidth, 2)), 3),
                        ShlBytes(AndBytes(value, Mask(BigWidth, 3)), 1))),
        OrBytes(OrBytes(ShrBytes(AndBytes(value, Mask(BigWidth, 4)), 1),
                        ShrBytes(AndBytes(value, Mask(BigWidth, 5)), 3)),
                OrBytes(ShrBytes(AndBytes(value, Mask(BigWidth, 6)), 5),
                        ShrBytes(value, 7)))))

\* the bytes the values are made of
ByteSamples == {0, 1, 128, 255}
BigByteSamples == {0, 128, 255}

\* the value of n bytes as a pattern of the given width
Widened(bytes, width) ==
    [i \in 1..width |-> IF i > width - Len(bytes) THEN bytes[i - (width - Len(bytes))] ELSE 0]

swapOf(n, pattern) ==
    CASE n = 2 -> swap16(pattern)
      [] n = 4 -> swap32(pattern)
      [] n = 8 -> swap64(pattern)

InitSwap ==
    /\ log = <<>>
    /\ growing = NoSink
    /\ chunks = <<>>
    /\ rd = NewReader
    /\ one = NewReader
    /\ ref = NewReader
    /\ frames = <<>>
    /\ wr = NoWriter
    /\ sink = <<>>
    /\ bitsIn = <<>>
    /\ io = NoIO
    /\ native = LITTLE

\* swap of a value of n bytes, and swap of its result
SwapOf(n, bytes) ==
    /\ log = <<>>
    /\ \E once \in {swapOf(n, Widened(bytes, IF n = 8 THEN BigWidth ELSE NumberWidth))} :
          log' = <<[value |-> bytes, once |-> once, twice |-> swapOf(n, once.bytes)]>>
    /\ UNCHANGED <<chunks, rd, frames, ref, one, wr, sink, bitsIn, io, native, growing>>

Swap16 == \E bytes \in [1..2 -> ByteSamples] : SwapOf(2, bytes)

Swap32 == \E bytes \in [1..4 -> ByteSamples] : SwapOf(4, bytes)

Swap64 == \E bytes \in [1..8 -> BigByteSamples] : SwapOf(8, bytes)

NextSwap ==
    \/ Swap16
    \/ Swap32
    \/ Swap64

SpecSwap == InitSwap /\ [][NextSwap]_vars

---------------------------------------------------------------------------
(* Properties of lookAhead *)

\* what a caller can observe of a reader
Obs(r) == [bytesRead |-> r.bytesRead, bitsRead |-> r.bitsRead, bit |-> r.bit, ret |-> r.ret]

\* the cursor and the counters are those of the snapshot taken at entry
AtSnapshot(r, f) ==
    /\ r.byte = f.origByte
    /\ r.bit = f.origBit
    /\ r.bytesRead = f.origReadBytes
    /\ r.bitsRead = f.origReadBits
    /\ r.buffer = f.origBuffer
    /\ r.bufferSize = Len(Data(f.origBuffer, chunks))
    /\ r.recordBuffers = f.origRecordBuffers

\* the bits between the entry position and the cursor when the operation
\* concludes
ReadSoFar == Pos(rd, chunks) - frames[Depth].entryPos

\* C1: a lookAhead whose operation never calls commit leaves the cursor and
\* the counters as they were at entry, and every read after it returns what
\* the same read returns on a reader that never looked ahead
C1_NoCommitLeavesReaderUntouched ==
    /\ [](Depth = 0 => Obs(rd) = Obs(ref))
    /\ [][\A o \in Outcomes : Exit(o, NoCommit) => AtSnapshot(rd', frames[Depth])]_vars

C1_Witness ==
    /\ Depth = 0
    /\ rd.nextBuffers # <<>>
    /\ ref.srcIdx < rd.srcIdx
    /\ Len(rd.ret) = 1
    /\ rd.ret[1] > 1

\* C2: after a lookAhead whose operation called commit() when it had read
\* everything it reads, the counters and the cursor are where the operation
\* left them
C2_CommitAllKeepsOperationEnd ==
    [][\A o \in Outcomes : Exit(o, CommitAll) =>
           /\ rd'.bitsRead = rd.bitsRead
           /\ rd'.bytesRead = rd.bytesRead
           /\ Pos(rd', chunks) = Pos(rd, chunks)]_vars

\* C3: after a lookAhead whose operation called commit(count, bitsPerUnit)
\* with no more bits than it read, getBitsRead() is its value at entry plus
\* count * bitsPerUnit and the cursor is that many bits after the entry position
C3_CommitCountAdvancesByCount ==
    [][\A o \in Outcomes : \A c \in CommitCounts :
           (Exit(o, c) /\ c[2] * c[3] <= ReadSoFar) =>
               /\ rd'.bitsRead = frames[Depth].origReadBits + c[2] * c[3]
               /\ Pos(rd', chunks) = frames[Depth].entryPos + c[2] * c[3]]_vars

\* C4: when a lookAhead that enclosed committing lookAheads exits, the cursor
\* is its own snapshot advanced by its own committed amount only
C4_InnerCommitStaysInside ==
    [][\A o \in Outcomes : \A c \in CommitChoices :
           (Exit(o, c) /\ frames[Depth].inner /\ Concluded(c).committedBits <= ReadSoFar) =>
               /\ rd'.bitsRead = frames[Depth].origReadBits + Concluded(c).committedBits
               /\ rd'.bytesRead = rd'.bitsRead \div 8
               /\ Pos(rd', chunks) = frames[Depth].entryPos + Concluded(c).committedBits
               /\ c = NoCommit => AtSnapshot(rd', frames[Depth])]_vars

\* C5: when the operation throws, the exit step has still restored the
\* snapshot and the recording flag and re-queued the consumed chunks, and
\* the caller of lookAhead gets the error
C5_ExitStepRunsOnThrow ==
    [][\A c \in CommitChoices : Exit("throw", c) =>
           /\ rd'.ret = <<ERROR>>
           /\ rd'.recordBuffers = frames[Depth].origRecordBuffers
           /\ Concluded(c).committedBits <= ReadSoFar =>
                  /\ Len(rd'.previousBuffers) <= Len(rd.previousBuffers)
                  /\ rd'.previousBuffers = SubSeq(rd.previousBuffers, 1, Len(rd'.previousBuffers))
           /\ rd'.bitsRead - frames[Depth].origReadBits <= Concluded(c).committedBits
           /\ c = NoCommit => AtSnapshot(rd', frames[Depth])]_vars

C5_Witness ==
    /\ Depth = 0
    /\ rd.ret = <<ERROR>>
    /\ rd.bitsRead = 4
    /\ Len(rd.nextBuffers) >= 2

IsChunk(id) == id \in 1..Len(chunks)

\* the chunks of the source the reader holds, oldest first
Held(r) == SelectSeq(r.previousBuffers \o <<r.buffer>> \o r.nextBuffers, IsChunk)

\* C6: the chunks the reader holds (history, current, queue) are a run of
\* consecutive chunks of the source, in delivery order, ending with the
\* chunk delivered last; no empty end-of-stream buffer precedes a chunk
C6_ChunksReplayedInOrder ==
    LET h == Held(rd)
        q == <<rd.buffer>> \o rd.nextBuffers
    IN /\ \A i \in 1..(Len(h) - 1) : h[i + 1] = h[i] + 1
       /\ h # <<>> => h[Len(h)] = rd.srcIdx
       /\ \A i \in 1..Len(q) : \A j \in 1..Len(q) : (i < j /\ q[i] < 0) => ~IsChunk(q[j])

C6_Witness ==
    /\ Depth = 0
    /\ Len(rd.nextBuffers) >= 2
    /\ IsChunk(rd.nextBuffers[1])
    /\ IsChunk(rd.nextBuffers[2])

\* C8: the bit offset is getBitsRead() mod 8 and getBytesRead() is
\* floor(getBitsRead() / 8)
C8_CountersAgree ==
    /\ rd.bit = rd.bitsRead % 8
    /\ rd.bytesRead = rd.bitsRead \div 8

C8_Witness ==
    /\ Depth = 0
    /\ rd.bit > 0
    /\ rd.bytesRead >= 1
    /\ ~rd.ok
    /\ rd.nextBuffers # <<>>

\* C9: an operation is told that no byte is available only after the source
\* has reported completion
C9_NoByteOnlyAfterCompletion == ~rd.ok => rd.srcDone

---------------------------------------------------------------------------
(* Properties of chunking and of the writer *)

\* C7: reads on the chunked source return what the same reads return on the
\* same bytes delivered as one chunk, and leave the same counters
C7_ChunkingInvariance == Obs(rd) = Obs(one)

\* the bits followed by zero bits up to the next byte boundary
Padded(bits) == bits \o Zeros((8 - (Len(bits) % 8)) % 8)

\* the bits a fresh reader gets from the chunks the sink received, one
\* readBit at a time until the end of the stream
ReadBack == readBits(NewReader, sink, 8 * Len(Flatten(sink)) + 1).ret

\* C10: after the final flush, reading the sink's bytes bit by bit yields the
\* written bits followed only by zero padding
C10_BitsRoundTrip == wr.flushed => ReadBack = Padded(bitsIn)

\* the bytes of a bit sequence whose length is a multiple of 8, least
\* significant bit first
RECURSIVE BytesOf(_)
BytesOf(bits) ==
    IF Len(bits) < 8 THEN <<>>
    ELSE <<bits[1] + 2 * bits[2] + 4 * bits[3] + 8 * bits[4]
           + 16 * bits[5] + 32 * bits[6] + 64 * bits[7] + 128 * bits[8]>>
         \o BytesOf(SubSeq(bits, 9, Len(bits)))

\* C11: writeBit at bit position k leaves the current buffer byte with bit k
\* equal to the written value and no bit above k
C11_WriteBitClearsAbove ==
    [][\A v \in {0, 1} : WriteBitValue(v) => Shr(wr'.buffer[wr.byte + 1], wr.bit) = v]_vars

\* the written bits that are still in the buffer
Unflushed == 8 * wr.byte + wr.bit

\* the written bits that flushes have handed to the sink
Delivered == SubSeq(bitsIn, 1, Len(bitsIn) - Unflushed)

\* C12: the sink has received exactly the bits written before the last flush,
\* a partial last byte padded with zero bits, and a flush leaves the write
\* position at byte 0, bit 0; the 20 bits of Scenario with a 2-byte buffer
\* arrive as [0b01010011, 0b10101100] and [0b1100]
C12_FlushDeliversWrittenData ==
    /\ Flatten(sink) = BytesOf(Padded(Delivered))
    /\ wr.flushed => wr.byte = 0 /\ wr.bit = 0
    /\ (wr.flushed /\ bitsIn = Scenario /\ wr.bufferSize = 2) => sink = <<<<83, 172>>, <<12>>>>

\* the sink writes the sink has not settled yet
Outstanding == {i \in 1..Len(io.status) : io.status[i] = "pending"}

\* C13: at most one sink write is outstanding at any time
C13_OneSinkWriteOutstanding == Cardinality(Outstanding) <= 1

\* C14: the chunks the sink has received, concatenated in the order of the
\* calls of its write, are the bytes of the bits written before the last
\* flush, and a chunk the sink has received never changes
C14_SinkReceivesWritesInOrder ==
    /\ [](Flatten(sink) = BytesOf(Delivered))
    /\ [][IsPrefix(sink, sink')]_vars

\* the promise returned by the last call is resolved: every sink write it
\* awaits is acknowledged
Resolved == \A i \in io.awaited : io.status[i] = "ok"

\* the promise returned by the last call is rejected: a sink write it awaits
\* has failed
Rejected == \E i \in io.awaited : io.status[i] = "failed"

\* C15: when no sink write fails and the promise of a flush() is resolved,
\* nothing is left in the buffer and the sink has acknowledged every write
C15_FlushGuaranteesDelivery ==
    (io.op = "flush" /\ Resolved /\ \A i \in 1..Len(io.status) : io.status[i] # "failed")
        => (Unflushed = 0 /\ Outstanding = {})

\* C16: when a sink write that a call started fails, the promise the call
\* returned is rejected
C16_SinkFailureReachesCaller ==
    (\E i \in io.started : io.status[i] = "failed") => Rejected

\* C17: a skip returns the count the read of the same amount returns, and
\* every read after it returns what it returns after that read
C17_SkipIsReadAndDiscard == rd.ret = one.ret

\* the bits of the stream after the cursor
Remaining(r) == 8 * SumLen(chunks, Len(chunks)) - Pos(r, chunks)

\* where a reader is: its chunk, its offsets and its counters
Cursor(r) == [buffer |-> r.buffer, byte |-> r.byte, bit |-> r.bit,
              bytesRead |-> r.bytesRead, bitsRead |-> r.bitsRead]

\* C18: with at least 8 bits left in the stream, readUint8 returns the byte
\* that eight readBit calls assemble, least significant bit first, and leaves
\* the cursor where they leave it
C18_ReadUint8IsEightBits ==
    [][(ReadUint8OrEightBits /\ Cursor(rd) = Cursor(one) /\ Remaining(rd) >= 8) =>
           (rd'.ret = one'.ret /\ Cursor(rd') = Cursor(one'))]_vars


\* the bytes of the stream from the cursor of a reader at a byte boundary
Rest(r) == SubSeq(Flatten(chunks), Pos(r, chunks) \div 8 + 1, Len(Flatten(chunks)))

\* the next m bytes exist and neither they nor the byte after them hold a
\* terminator
StopsAtLimit(r, m) ==
    /\ m # NoMax
    /\ Len(Rest(r)) >= m
    /\ \A i \in 1..Min(m + 1, Len(Rest(r))) : Rest(r)[i] # NUL

\* C19: readNullTerminatedString({ maxBytes: m }) that stops because m bytes
\* were read before a terminator returns exactly the next m bytes and leaves
\* the cursor right after them, for every chunking
C19_LimitedReadConsumesWhatItReturns ==
    [][\A m \in Limits :
        (ReadNullTerminatedStringMax(m) /\ StopsAtLimit(rd, m))
            => (/\ rd'.ret = decode8(SubSeq(Rest(rd), 1, m))
                /\ Pos(rd', chunks) = Pos(rd, chunks) + 8 * m)]_vars


\* ref and one stand at the same place of the text, one four bits further in
\* its stream
SamePlace ==
    /\ Pos(one, Shifted) = Pos(ref, Whole) + 4
    /\ one.bitsRead = ref.bitsRead + 4

\* both readers have run to the end of the text; the four bits that pad the
\* shifted text are not part of it
BothAtEnd ==
    /\ Pos(ref, Whole) = 8 * Len(Flatten(chunks))
    /\ Pos(one, Shifted) >= 8 * Len(Flatten(chunks)) + 4

\* C20: from the same place of the same text, readNullTerminatedString and
\* readLine, with or without maxBytes, return the same result and consume the
\* same number of bits at a byte boundary (ref) and at a bit offset (one)
C20_AlignedAndUnalignedAgree ==
    [][((ReadNullTerminatedString \/ ReadLine) /\ SamePlace)
        => (/\ ref'.ret = one'.ret
            /\ SamePlace' \/ BothAtEnd')]_vars


\* the bytes of the text from the cursor of the reader of the shifted text
RestShifted(r) ==
    SubSeq(Flatten(chunks), (Pos(r, Shifted) - 4) \div 8 + 1, Len(Flatten(chunks)))

\* the bytes up to the first stopValue, with it if wanted; all bytes when
\* there is none
UpTo(bytes, stopValue, includeStopValue) ==
    LET at == IndexOf(bytes, stopValue, 0)
    IN IF at = -1 THEN bytes
       ELSE SubSeq(bytes, 1, IF includeStopValue THEN at + 1 ELSE at)

\* what a read without maxBytes returns on the bytes rest
Unlimited(rest, stopValue, includeStopValue) ==
    IF rest = <<>> THEN <<NULL>> ELSE decode8(UpTo(rest, stopValue, includeStopValue))

\* C21: readNullTerminatedString and readLine return null exactly when no
\* byte is left in the stream; a terminator found at once yields the empty
\* string, and the bytes before the end of the stream are returned when no
\* terminator follows
C21_NullOnlyAtEndOfStream ==
    [][/\ \A m \in Limits :
            (ReadNullTerminatedStringMax(m) \/ ReadLineWith(TRUE, m) \/ ReadLineWith(FALSE, m))
                => (/\ rd'.ret = <<NULL>> <=> Rest(rd) = <<>>
                    /\ one'.ret = <<NULL>> <=> RestShifted(one) = <<>>)
       /\ ReadNullTerminatedStringMax(NoMax)
            => (/\ rd'.ret = Unlimited(Rest(rd), NUL, FALSE)
                /\ one'.ret = Unlimited(RestShifted(one), NUL, FALSE))
       /\ ReadLineWith(TRUE, NoMax)
            => (/\ rd'.ret = Unlimited(Rest(rd), LF, TRUE)
                /\ one'.ret = Unlimited(RestShifted(one), LF, TRUE))]_vars


\* the number of bytes the sink held for a returned string
ByteLength(string, encoding) ==
    IF string = <<NULL>> THEN 0
    ELSE IF startsWithUtf16(encoding) THEN 2 * Len(string)
    ELSE Len(string)

\* C22: readNullTerminatedString and readLine with maxBytes = m never return
\* more than m bytes, in 8-bit and in UTF-16 encodings, for odd and even m,
\* at the byte boundary (rd) and at a bit offset (one), for every chunking
C22_NeverMoreThanMaxBytes ==
    [][\A encoding \in Encodings : \A m \in Limits \ {NoMax} :
        (ReadNullTerminatedStringIn(encoding, m) \/ ReadLineIn(TRUE, encoding, m))
            => (/\ ByteLength(rd'.ret, encoding) <= m
                /\ ByteLength(one'.ret, encoding) <= m)]_vars


\* the number of bytes of a code unit
UnitSize(encoding) == IF startsWithUtf16(encoding) THEN 2 ELSE 1

\* the bytes of the text between the cursors of two readers of the chunks
Consumed(r, r2) ==
    SubSeq(Flatten(chunks), Pos(r, chunks) \div 8 + 1, Pos(r2, chunks) \div 8)

\* the same for two readers of the shifted text
ConsumedShifted(r, r2) ==
    SubSeq(Flatten(chunks), (Pos(r, Shifted) - 4) \div 8 + 1, (Pos(r2, Shifted) - 4) \div 8)

\* the index of the first LF among the code units of the bytes, or -1
FirstLF(bytes, encoding) == IndexOf(decode(bytes, encoding), LF, 0)

\* the bytes are whole code units and end with their first LF
EndsLine(bytes, encoding) ==
    /\ Len(bytes) % UnitSize(encoding) = 0
    /\ bytes # <<>>
    /\ FirstLF(bytes, encoding) = Len(bytes) \div UnitSize(encoding) - 1

\* the line that ends at the first LF of the bytes, without its LF or CRLF
Line(bytes, encoding) ==
    LET units == decode(bytes, encoding)
        at == FirstLF(bytes, encoding)
    IN SubSeq(units, 1, IF at >= 1 /\ units[at] = CR THEN at - 1 ELSE at)

\* what readLine without includeEOL returns for the bytes it consumed
Stripped(bytes, encoding) ==
    IF EndsLine(bytes, encoding) THEN Line(bytes, encoding) ELSE decode(bytes, encoding)

\* C23: readLine without includeEOL returns the code units before the line
\* terminator it matched and consumed, with the LF (1 byte, 2 in UTF-16) or
\* the CRLF (2 bytes, 4 in UTF-16) removed and nothing else
C23_ReadLineRemovesMatchedTerminator ==
    [][\A encoding \in Encodings : \A m \in Limits :
        ReadLineIn(FALSE, encoding, m)
            => (/\ EndsLine(Consumed(rd, rd'), encoding)
                    => rd'.ret = Line(Consumed(rd, rd'), encoding)
                /\ EndsLine(ConsumedShifted(one, one'), encoding)
                    => one'.ret = Line(ConsumedShifted(one, one'), encoding)
                /\ (rd'.ret # <<NULL>> /\ Len(Consumed(rd, rd')) % UnitSize(encoding) = 0)
                    => rd'.ret = Stripped(Consumed(rd, rd'), encoding)
                /\ (one'.ret # <<NULL>>
                       /\ Len(ConsumedShifted(one, one')) % UnitSize(encoding) = 0)
                    => one'.ret = Stripped(ConsumedShifted(one, one'), encoding))]_vars

\* the first line of the UTF-16 text has been read at the byte boundary and
\* at a bit offset: the six bytes of "a\r\n" consumed, "a" returned
C23_Witness ==
    /\ Delivers(UTF16LE) \/ Delivers(UTF16BE)
    /\ Pos(rd, chunks) = 8 * 6
    /\ rd.ret = <<97>>
    /\ Pos(one, Shifted) = 8 * 6 + 4
    /\ one.ret = <<97>>


\* the byte of the stream whose lowest bit is bit p of the stream
StreamByteAt(p) ==
    LET all == Flatten(chunks)
        k == p % 8
        low == Shr(all[p \div 8 + 1], k)
    IN IF k = 0 THEN low
       ELSE low + Shl(LowBits(all[p \div 8 + 2], k), 8 - k)

\* the value of the i-th element of w bytes from the cursor (i from 0), most
\* significant byte first
StreamElement(r, w, i, endianness) ==
    LET bytes == [j \in 1..w |-> StreamByteAt(Pos(r, chunks) + 8 * (i * w + j - 1))]
    IN IF endianness = LITTLE THEN Reverse(bytes) ELSE bytes

\* C24: an array read of size elements at offset returns the smaller of size
\* and the number of whole elements left in the stream, and the cells
\* offset .. offset + count - 1 of the caller's array hold these elements in
\* stream order and in the requested endianness, for elements of 1, 2, 4 and
\* 8 bytes, at any alignment and chunking
C24_ArrayReadStoresWholeElements ==
    [][\A w \in Widths : \A offset \in {0, 1} : \A size \in {1, 2} :
       \A endianness \in {LITTLE, BIG} :
        ReadArrayOf(w, offset, size, endianness)
            => (/\ rd'.ret[1] = Min(size, Remaining(rd) \div (8 * w))
                /\ \A i \in 0..(rd'.ret[1] - 1) :
                     elementAt(SubSeq(Tail(rd'.ret), (offset + i) * w + 1,
                                      (offset + i) * w + w), native)
                       = StreamElement(rd, w, i, endianness))]_vars

\* C25: a value written with the 16, 32 or 64 bit unsigned write and an
\* endianness, at any bit alignment, and flushed, is the value the read of the
\* same width with the same endianness returns
C25_WriteThenReadReturnsValue ==
    [][RoundRead /\ Head(log).width > 1 /\ Head(log).endianness # NoOption
                 /\ ~Head(log).array
       => rd'.ret = Head(log).value]_vars

\* C26: a writer constructed without an endianness option reports the
\* platform's endianness, and what it writes without a per-call endianness
\* reads back in the platform's byte order
C26_WriterDefaultsToNative ==
    /\ [](getEndianness(wr) = native)
    /\ [][RoundRead /\ Head(log).width > 1 /\ Head(log).endianness = NoOption
          => rd'.ret = Head(log).value]_vars

\* the bytes a writer has produced: those its sink received and those still
\* in its buffer
Produced(st) ==
    Flatten(st.sink) \o SubSeq(st.w.buffer, 1, st.w.byte + (IF st.w.bit > 0 THEN 1 ELSE 0))

\* C27: a 16, 32 or 64 bit array write, signed or unsigned, with either
\* endianness on a platform of either byte order produces the bytes that
\* writing its elements one by one with the same endianness produces
C27_ArrayWriteEqualsElementWrites ==
    [][\A width \in {16, 32, 64} : \A values \in ArraysOf(width) :
       \A endianness \in {LITTLE, BIG} :
          RoundWriteArrayOf(width, values, endianness)
          => Produced([w |-> wr', sink |-> sink'])
             = Produced(writeEach(Before, width, values, endianness, 1))]_vars

\* a call of a writer method other than flush()
WriteCall == io'.calls = io.calls + 1 /\ io'.op # "flush"

\* the bits the writer holds in its buffer
Buffered(w) == 8 * w.byte + w.bit

\* C28: without a flush() call the sink's write is invoked only when the
\* write position reaches bufferSize, every chunk written so has exactly
\* bufferSize bytes, and what does not fill the buffer stays in the writer
C28_AutoFlushOnlyWhenBufferFills ==
    [][WriteCall =>
          /\ \A i \in StartedBy(sink, sink') : Len(sink'[i]) = wr.bufferSize
          /\ Buffered(wr) + Len(bitsIn') - Len(bitsIn)
             = 8 * wr.bufferSize * (Len(sink') - Len(sink)) + Buffered(wr')
          /\ wr'.byte < wr.bufferSize]_vars

\* a writeUint8s call has filled the buffer of two bytes once and has left
\* one byte and a bit in the writer
C28_Witness ==
    /\ io.op = "writeUint8s"
    /\ wr.bufferSize = 2
    /\ Len(sink) = 1
    /\ io.started = {1}
    /\ Buffered(wr) = 9

\* bit k, counted from 0, of the stream the source delivers: bit k mod 8,
\* least significant first, of byte k div 8; NULL after the last bit
StreamBit(k) ==
    IF k < 8 * Len(Flatten(chunks))
    THEN Shr(Flatten(chunks)[(k \div 8) + 1], k % 8) % 2
    ELSE NULL

\* C29: on a fresh reader the k-th readBit returns bit k of the stream
\* however the stream is cut into chunks, and null once all bits are read;
\* up to the first null the reader has read as many bits as readBit was called
C29_ReadBitReturnsBitsInOrder ==
    [][ReadBit => rd'.ret = <<StreamBit(rd.bitsRead)>>]_vars

\* the capacity is the initial capacity doubled some number of times
RECURSIVE IsDoubled(_, _)
IsDoubled(capacity, initial) ==
    \/ capacity = initial
    \/ /\ capacity > initial
       /\ initial > 0
       /\ capacity % 2 = 0
       /\ IsDoubled(capacity \div 2, initial)

\* the sink of initial capacity 1 after writes of 3, 1 and 16 bytes
Grown == write(write(write(NewSink(1), <<1, 2, 3>>), <<4>>), [i \in 1..16 |-> 4 + i])

\* C30: the capacity changes only in a write whose new size exceeds it, to
\* the first of its doublings that is at least the new size; reset and rewind
\* leave it alone; so it is the initial capacity times a power of two and at
\* least the size; initial capacity 1 and writes of 3, 1 and 16 bytes end at
\* capacity 32 and size 20
C30_CapacityDoublesOnOverflow ==
    /\ [][getCapacity(growing') # getCapacity(growing)
          => /\ GrowWriteArray \/ GrowWriteByte
             /\ getSize(growing') > getCapacity(growing)
             /\ getCapacity(growing') >= getSize(growing')
             /\ getCapacity(growing') \div 2 < getSize(growing')
             /\ IsDoubled(getCapacity(growing'), getCapacity(growing))]_vars
    /\ [][getSize(growing') > getCapacity(growing)
          => getCapacity(growing') # getCapacity(growing)]_vars
    /\ [](IsDoubled(getCapacity(growing), growing.initial))
    /\ [](getSize(growing) <= getCapacity(growing))
    /\ [](getCapacity(Grown) = 32 /\ getSize(Grown) = 20)

\* the sink of the test after its three writes
C30_Witness ==
    /\ growing.initial = 1
    /\ getCapacity(growing) = 32
    /\ getSize(growing) = 20
    /\ growing = Grown

\* C31: getData() is the bytes appended in write order, emptied by reset()
\* and shortened by rewind(n), whatever the capacity grew to
C31_DataIsLogicalContent == getData(growing) = log

\* a sink that has grown and holds, behind its three bytes, a byte that a
\* rewind removed
C31_Witness ==
    /\ growing.initial = 1
    /\ getCapacity(growing) = 4
    /\ log = <<1, 2, 1>>
    /\ growing.buffer[4] = 2

\* the indices at() is called with
Indices == (0 - MaxData - 2)..(MaxData + 2)

\* C32: at(i) is the byte at i for 0 <= i < size, the byte at size + i for
\* -size <= i < 0 and undefined for every other index
C32_AtStaysInsideContent ==
    \A i \in Indices :
        atIndex(growing, i) = IF 0 <= i /\ i < Len(log) THEN log[i + 1]
                         ELSE IF 0 - Len(log) <= i /\ i < 0 THEN log[Len(log) + i + 1]
                         ELSE NULL

\* a sink whose buffer holds a byte behind its content: at(2) is outside
C32_Witness ==
    /\ log = <<2, 2>>
    /\ getCapacity(growing) = 3
    /\ growing.buffer[3] = 1
    /\ atIndex(growing, 2) = NULL
    /\ atIndex(growing, 0 - 2) = 2

\* the result is the value of the n bytes given, in the unsigned range of
\* n bytes
IsValue(result, bytes) ==
    /\ ~result.negative
    /\ result.bytes = Widened(bytes, Len(result.bytes))

\* C33: swap16, swap32 and swap64 of a value of the unsigned range is the
\* value with its bytes in reverse order, in the same unsigned range, and the
\* swap of that is the value
C33_SwapReversesBytes ==
    log # <<>> =>
        /\ IsValue(log[1].once, Reverse(log[1].value))
        /\ IsValue(log[1].twice, log[1].value)

\* swap32(0x00000180) = 0x80010000, whose highest bit is set
C33_Witness ==
    /\ log # <<>>
    /\ log[1].value = <<0, 0, 1, 128>>
    /\ log[1].once.bytes = <<128, 1, 0, 0>>

\* the number of bytes the source has delivered to the reader
BytesDelivered(r) == SumLen(chunks, r.srcIdx)

CountsWhatExists(r) ==
    /\ r.bytesRead <= BytesDelivered(r)
    /\ r.bitsRead <= 8 * BytesDelivered(r)

\* C34: after any sequence of reads and skips getBytesRead() is at most the
\* number of bytes the source has delivered and getBitsRead() at most eight
\* times that number
C34_CountersCountDeliveredData == CountsWhatExists(rd) /\ CountsWhatExists(one)

\* the source has reported completion and a read has returned null
Ended == log # <<>> /\ rd.srcDone

\* C35: once the source is done and a read has returned null, every
\* single-value read returns null, every array and bit-list read reads
\* nothing and every skip skips nothing
C35_EndOfStreamIsAbsorbing ==
    [][Ended =>
          /\ EndReadBit \/ EndReadUint8 \/ EndReadUint16 => rd'.ret = <<NULL>>
          /\ EndReadBits => rd'.ret = <<>>
          /\ EndReadUint8Array => rd'.ret = <<0>>
          /\ EndSkipBits \/ EndSkipBytes => rd'.ret = <<0>>]_vars

\* C36: an array read leaves every element of the caller's array outside
\* offset .. offset + count - 1 as it was before the call, also when the
\* stream ends inside an element
C36_ArrayReadTouchesOnlyReadElements ==
    [][\A w \in Widths : \A offset \in {0, 1} : \A size \in {1, 2} :
       \A endianness \in {LITTLE, BIG} :
        ReadArrayOf(w, offset, size, endianness)
            => \A j \in 1..(ArrayLength * w) :
                  (j <= offset * w \/ j > (offset + rd'.ret[1]) * w)
                  => Tail(rd'.ret)[j] = NewArray(w)[j]]_vars

\* C37: the bytes of the lines that readLine({ includeEOL: true }) returns up
\* to its null, one after the other, are the bytes of the input, at the byte
\* boundary and four bits off it, however the input is chunked
C37_LinesReproduceInput ==
    (log # <<>> /\ log[Len(log)] = "null") => sink = Input

\* the cursor is inside the current chunk, or right behind its last byte
InsideChunk(r) == r.byte \in 0..r.bufferSize /\ r.bit \in 0..7

\* C38: after every completed reader operation, calls after the end of the
\* stream included, the byte offset is between 0 and the length of the
\* current chunk and the bit offset is between 0 and 7
C38_CursorInsideChunk == InsideChunk(rd)

\* the buffers a reader keeps: its history, its current buffer, its queue
Kept(r) ==
    {r.previousBuffers[i] : i \in 1..Len(r.previousBuffers)}
        \cup {r.buffer}
        \cup {r.nextBuffers[i] : i \in 1..Len(r.nextBuffers)}

\* the buffers a rewind may need: the history and the current buffer
Recorded(r) == {r.previousBuffers[i] : i \in 1..Len(r.previousBuffers)} \cup {r.buffer}

\* C39: while a lookAhead is active no recorded buffer is given up, and
\* while none is active recordBuffers is false and previousBuffers is empty
C39_HistoryKeptWhileNeeded ==
    /\ [](Depth = 0 => (~rd.recordBuffers /\ rd.previousBuffers = <<>>))
    /\ [][(frames # <<>> /\ frames' # <<>>) => Recorded(rd) \subseteq Kept(rd')]_vars

C39_Witness ==
    /\ Depth = 0
    /\ Len(rd.nextBuffers) >= 2
    /\ rd.ret = <<>>
    /\ rd.bitsRead > 0

\* C40: whenever a lookAhead may exit, the buffer that was current at its
\* entry is the current buffer or is in previousBuffers, so the loop of
\* restoreBuffer finds it
C40_RestoreBufferTerminates ==
    \A i \in 1..Depth : ~restoreBufferDiverges(rd, frames[i].origBuffer)

C40_Witness ==
    /\ Depth = 1
    /\ frames[1].inner
    /\ rd.srcDone
    /\ rd.buffer < 0
    /\ Len(rd.previousBuffers) >= 2
    /\ rd.buffer # frames[1].origBuffer

=============================================================================
